---- MODULE Spec2Model ----
(***************************************************************************)
(* A model of the asynchronous synchronization engine of lazyactions:     *)
(* the generic FilteredList container, the TickerTask polling loop, the   *)
(* retry policy around read fetches, and the App update function that     *)
(* reconciles background results with the current selection.              *)
(*                                                                         *)
(* Go slices are sequences; slice indexes are kept 0-based as in the      *)
(* source (element i of a slice s is s[i + 1]).  Go strings that the      *)
(* code inspects character by character are sequences of one-character    *)
(* strings.                                                                *)
(***************************************************************************)
EXTENDS Integers, Sequences, FiniteSets, Bags, TLC

(***************************************************************************)
(* Bounds of the model.                                                    *)
(***************************************************************************)
\* longest item slice handed to FilteredList.SetItems in SpecList
MaxItems == 2

Zero == [zero |-> TRUE]

\* a nil slice, as opposed to an empty one
NilSlice == <<[nil |-> TRUE]>>

Max(a, b) == IF a > b THEN a ELSE b

(***************************************************************************)
(* strings.ToLower and strings.Contains on character sequences.            *)
(***************************************************************************)
LowerChar(c) ==
    CASE c = "A" -> "a"
      [] c = "B" -> "b"
      [] c = "C" -> "c"
      [] c = "D" -> "d"
      [] OTHER -> c

ToLower(s) == [i \in 1..Len(s) |-> LowerChar(s[i])]

Contains(s, sub) ==
    \E i \in 1..(Len(s) + 1) :
        /\ i + Len(sub) - 1 <= Len(s)
        /\ SubSeq(s, i, i + Len(sub) - 1) = sub

(***************************************************************************)
(* State.  Each component is exercised by a specification of its own; the  *)
(* variables of the components a specification does not run stay at their  *)
(* initial values.                                                         *)
(***************************************************************************)
VARIABLES
    \* SpecList: one FilteredList driven by arbitrary call sequences
    list,       \* the FilteredList under test
    matchTbl,   \* its matchFn, as a table over (item, filter)
    lastCall,   \* history: the last call made, with its argument
    prevCall,   \* history: the call made just before it
    prevIdx,    \* history: selectedIdx before the last call
    \* SpecConc: goroutines sharing one FilteredList
    clist,      \* the shared FilteredList
    mu,         \* l.mu: the goroutine holding the write lock, the readers
    gcall,      \* per goroutine: the call in progress
    seenTorn,   \* some reader has read fields that do not fit together
    panicked,   \* an index out of range was evaluated
    \* SpecTicker: one TickerTask
    tpc,        \* where the function returned by Start() is
    ctxDone,    \* t.ctx has been cancelled
    tickReady,  \* ticker.C holds a tick
    tresult,    \* what the function returned by Start() returned
    probeCalls, \* history: number of taskFn invocations
    stops,      \* history: number of Stop() calls
    stoppedFirst, \* history: Stop() was called before the function ran
    probeLog,   \* history: what the counted taskFn invocations returned
    \* SpecRetry: one RetryWithBackoff call
    rpc,        \* where the call is
    rscript,    \* what successive invocations of the operation return
    rattempts,  \* the attempts argument
    rcalls,     \* history: number of invocations of the operation
    rresult,    \* the error returned (NoError for nil)
    \* Spec and the other App specifications
    app,        \* the fields of App
    cmds,       \* commands running in the background and messages not yet delivered
    last,       \* history: the command whose result Update handled last, if any
    userActions,\* history: side-effecting actions the user has asked for
    remoteCalls,\* history: side-effecting remote calls made
    \* SpecPoll and SpecInterval: log polling and the real client
    logPoller,  \* a.logPoller: the index of its TickerTask in tasks, 0 for nil
    tasks,      \* every TickerTask StartLogPolling has created
    rateLimit,  \* realClient.rateLimit
    interval,   \* what the last call of NextInterval() returned
    touched,    \* history: per structure, the execution contexts that read and wrote it
    \* SpecAlias: one FilteredList, its backing arrays and a caller of Items()
    heap,       \* the backing arrays of the slices
    alist,      \* the FilteredList: its slices are references into heap
    got,        \* the slice an earlier Items() call returned, and its contents then
    acall,      \* history: the last call made
    \* SpecClassify: one error value
    cerr,       \* the error
    cwrapped,   \* what WrapAPIError(cerr) returned
    cchecked,   \* the error IsRetryable was called with
    cretry      \* what IsRetryable returned

listVars == <<list, matchTbl, lastCall, prevCall, prevIdx>>

concVars == <<clist, mu, gcall, seenTorn, panicked>>

tickVars == <<tpc, ctxDone, tickReady, tresult, probeCalls, stops, stoppedFirst,
             probeLog>>

retryVars == <<rpc, rscript, rattempts, rcalls, rresult>>

appVars == <<app, cmds, last, userActions, remoteCalls>>

pollVars == <<logPoller, tasks, rateLimit, interval, touched>>

aliasVars == <<heap, alist, got, acall>>

classVars == <<cerr, cwrapped, cchecked, cretry>>

vars == <<listVars, concVars, tickVars, retryVars, appVars, pollVars, aliasVars,
         classVars>>

(***************************************************************************)
(* FilteredList[T]: the fields of the struct as a record.                  *)
(***************************************************************************)
\* the predicates handed to NewFilteredList: the table of SpecList, the
\* testMatchFn of the tests, and those of the three lists of the App
listMatch(item, filter) == matchTbl[<<item, filter>>]

testMatchFn(item, filter) == Contains(ToLower(item.Name), ToLower(filter))

workflowMatch(w, filter) == Contains(ToLower(w.Name), ToLower(filter))

runMatch(r, filter) ==
    \/ Contains(ToLower(r.Branch), ToLower(filter))
    \/ Contains(ToLower(r.Actor), ToLower(filter))

jobMatch(j, filter) == Contains(ToLower(j.Name), ToLower(filter))

\* l.matchFn(item, filter), the field holding the name of the predicate
matchFn(l, item, filter) ==
    CASE l.matchFn = "listMatch" -> listMatch(item, filter)
      [] l.matchFn = "testMatchFn" -> testMatchFn(item, filter)
      [] l.matchFn = "workflowMatch" -> workflowMatch(item, filter)
      [] l.matchFn = "runMatch" -> runMatch(item, filter)
      [] l.matchFn = "jobMatch" -> jobMatch(item, filter)

NewFilteredList(fn) ==
    [allItems |-> <<>>, filtered |-> <<>>, filter |-> <<>>, selectedIdx |-> 0,
     matchFn |-> fn]

\* a plausible slip: only the lower bound is enforced
clampSelectedIndexNoUpper(l) ==
    IF Len(l.filtered) - 1 < 0
    THEN [l EXCEPT !.selectedIdx = 0]
    ELSE IF l.selectedIdx < 0 THEN [l EXCEPT !.selectedIdx = 0] ELSE l

clampSelectedIndex(l) ==
    LET maxIdx == Len(l.filtered) - 1 IN
    IF maxIdx < 0
    THEN [l EXCEPT !.selectedIdx = 0]
    ELSE IF l.selectedIdx > maxIdx
         THEN [l EXCEPT !.selectedIdx = maxIdx]
         ELSE IF l.selectedIdx < 0
              THEN [l EXCEPT !.selectedIdx = 0]
              ELSE l

\* the loop of applyFilter: append every item of allItems that matches
filterLoop(l) ==
    LET acc[i \in 0..Len(l.allItems)] ==
            IF i = 0
            THEN <<>>
            ELSE IF matchFn(l, l.allItems[i], l.filter)
                 THEN Append(acc[i - 1], l.allItems[i])
                 ELSE acc[i - 1]
    IN acc[Len(l.allItems)]

\* a plausible slip: the empty filter is handed to the predicate as well
applyFilterAlwaysMatch(l) ==
    clampSelectedIndex([l EXCEPT !.filtered = filterLoop(l)])

applyFilter(l) ==
    clampSelectedIndex(
        IF l.filter = <<>>
        THEN [l EXCEPT !.filtered = l.allItems]
        ELSE [l EXCEPT !.filtered = filterLoop(l)])

\* a plausible slip: new items start unfiltered
SetItemsClearsFilter(l, items) ==
    applyFilter([l EXCEPT !.allItems = IF items = NilSlice THEN <<>> ELSE items,
                          !.filter = <<>>])

SetItems(l, items) ==
    applyFilter([l EXCEPT !.allItems = IF items = NilSlice THEN <<>> ELSE items])

\* a plausible slip: the filter that is already set is taken off
SetFilterToggles(l, filter) ==
    applyFilter([l EXCEPT !.filter = IF l.filter = filter THEN <<>> ELSE filter])

SetFilter(l, filter) == applyFilter([l EXCEPT !.filter = filter])

Items(l) == l.filtered

\* a plausible slip: the empty view is not told apart
SelectedAlwaysFound(l) ==
    IF Len(l.filtered) = 0
    THEN [ok |-> TRUE, item |-> Zero]
    ELSE [ok |-> TRUE, item |-> l.filtered[l.selectedIdx + 1]]

Selected(l) ==
    IF Len(l.filtered) = 0
    THEN [ok |-> FALSE, item |-> Zero]
    ELSE [ok |-> TRUE, item |-> l.filtered[l.selectedIdx + 1]]

\* a plausible slip: after the last item comes the first
SelectNextWraps(l) ==
    IF Len(l.filtered) = 0
    THEN l
    ELSE [l EXCEPT !.selectedIdx = (l.selectedIdx + 1) % Len(l.filtered)]

SelectNext(l) ==
    IF Len(l.filtered) = 0
    THEN l
    ELSE IF l.selectedIdx < Len(l.filtered) - 1
         THEN [l EXCEPT !.selectedIdx = l.selectedIdx + 1]
         ELSE l

SelectPrev(l) ==
    IF Len(l.filtered) = 0
    THEN l
    ELSE IF l.selectedIdx > 0
         THEN [l EXCEPT !.selectedIdx = l.selectedIdx - 1]
         ELSE l

SelectedIndex(l) == l.selectedIdx

FLLen(l) == Len(l.filtered)

Reset(l) == applyFilter([l EXCEPT !.filter = <<>>, !.selectedIdx = 0])

(***************************************************************************)
(* SpecList: one FilteredList[testItem] driven by arbitrary call sequences *)
(***************************************************************************)
TestItems == {[Name |-> <<"A">>, ID |-> 1], [Name |-> <<"b">>, ID |-> 2]}

TestFilters == {<<>>, <<"a">>, <<"B">>}

RECURSIVE SeqsUpTo(_, _)
SeqsUpTo(S, n) ==
    IF n = 0
    THEN {<<>>}
    ELSE LET shorter == SeqsUpTo(S, n - 1) IN
         shorter \cup {<<x>> \o s : x \in S, s \in {t \in shorter : Len(t) = n - 1}}

ItemSlices == SeqsUpTo(TestItems, MaxItems) \cup {NilSlice}

NoCall == [op |-> "New", arg |-> <<>>]

ListInit ==
    /\ list = NewFilteredList("listMatch")
    /\ matchTbl \in [TestItems \X TestFilters -> BOOLEAN]
    /\ lastCall = NoCall
    /\ prevCall = NoCall
    /\ prevIdx = 0

Called(op, arg) ==
    /\ lastCall' = [op |-> op, arg |-> arg]
    /\ prevCall' = lastCall
    /\ prevIdx' = list.selectedIdx
    /\ UNCHANGED <<matchTbl, concVars, tickVars, retryVars, appVars, pollVars, aliasVars, classVars>>

ListSetItems ==
    \E items \in ItemSlices :
        /\ list' = SetItems(list, items)
        /\ Called("SetItems", items)

ListSetFilter ==
    \E f \in TestFilters :
        /\ list' = SetFilter(list, f)
        /\ Called("SetFilter", f)

ListSelectNext ==
    /\ list' = SelectNext(list)
    /\ Called("SelectNext", <<>>)

ListSelectPrev ==
    /\ list' = SelectPrev(list)
    /\ Called("SelectPrev", <<>>)

ListReset ==
    /\ list' = Reset(list)
    /\ Called("Reset", <<>>)

(***************************************************************************)
(* SpecConc: goroutines calling one FilteredList[testItem] concurrently.   *)
(* Every method takes l.mu (Lock for the mutators, RLock for the readers)  *)
(* and releases it on return; between the two the body runs statement by   *)
(* statement, interleaved with the other goroutines.                       *)
(***************************************************************************)
\* number of goroutines sharing the list in SpecConc
NumGoroutines == 2

Goroutines == 1..NumGoroutines

Idle == [op |-> "idle", arg |-> <<>>, todo |-> <<>>, held |-> FALSE]

Writers == {"SetItems", "SetFilter", "SelectNext", "SelectPrev", "Reset"}

Readers == {"Items", "Selected", "SelectedIndex", "Len"}

\* the statements of each method body, in order
Statements(op) ==
    CASE op = "SetItems" -> <<"allItems", "filtered", "clamp">>
      [] op = "SetFilter" -> <<"filter", "filtered", "clamp">>
      [] op = "Reset" -> <<"filterEmpty", "idxZero", "filtered", "clamp">>
      [] op = "SelectNext" -> <<"next">>
      [] op = "SelectPrev" -> <<"prev">>
      [] OTHER -> <<"read">>

ConcArgs(op) ==
    CASE op = "SetItems" ->
             {<<>>, NilSlice} \cup {s \in SeqsUpTo(TestItems, 2) : Len(s) = 2}
      [] op = "SetFilter" -> {<<>>, <<"a">>}
      [] OTHER -> {<<>>}

\* the filtered view that fits allItems and filter
Derived(l) ==
    IF l.filter = <<>>
    THEN l.allItems
    ELSE SelectSeq(l.allItems, LAMBDA x : testMatchFn(x, l.filter))

SelectionInvariant(l) ==
    /\ l.selectedIdx >= 0
    /\ l.selectedIdx <= Max(0, Len(l.filtered) - 1)
    /\ Len(l.filtered) = 0 => l.selectedIdx = 0

Consistent(l) == SelectionInvariant(l) /\ l.filtered = Derived(l)

ConcInit ==
    /\ clist = NewFilteredList("testMatchFn")
    /\ mu = [writer |-> 0, readers |-> {}]
    /\ gcall = [g \in Goroutines |-> Idle]
    /\ seenTorn = FALSE
    /\ panicked = FALSE

\* a goroutine enters a method
ConcCall(g) ==
    /\ gcall[g].op = "idle"
    /\ \E op \in Writers \cup Readers :
        \E arg \in ConcArgs(op) :
            gcall' = [gcall EXCEPT ![g] =
                [op |-> op, arg |-> arg, todo |-> Statements(op), held |-> FALSE]]
    /\ UNCHANGED <<clist, mu, seenTorn, panicked>>
    /\ UNCHANGED <<listVars, tickVars, retryVars, appVars, pollVars, aliasVars, classVars>>

\* a reader that does not wait for the writer
CanRLockUnguarded == TRUE

\* l.mu.RLock() returns only while no goroutine holds the write lock
CanRLock == mu.writer = 0

\* l.mu.Lock() returns only while no goroutine holds the lock at all
CanLock == mu.writer = 0 /\ mu.readers = {}

ConcLock(g) ==
    /\ gcall[g].op \in Writers
    /\ ~gcall[g].held
    /\ CanLock
    /\ mu' = [mu EXCEPT !.writer = g]
    /\ gcall' = [gcall EXCEPT ![g].held = TRUE]
    /\ UNCHANGED <<clist, seenTorn, panicked>>
    /\ UNCHANGED <<listVars, tickVars, retryVars, appVars, pollVars, aliasVars, classVars>>

ConcRLock(g) ==
    /\ gcall[g].op \in Readers
    /\ ~gcall[g].held
    /\ CanRLock
    /\ mu' = [mu EXCEPT !.readers = @ \cup {g}]
    /\ gcall' = [gcall EXCEPT ![g].held = TRUE]
    /\ UNCHANGED <<clist, seenTorn, panicked>>
    /\ UNCHANGED <<listVars, tickVars, retryVars, appVars, pollVars, aliasVars, classVars>>

\* one statement of a mutator's body
WriteStatement(l, st, arg) ==
    CASE st = "allItems" -> [l EXCEPT !.allItems = IF arg = NilSlice THEN <<>> ELSE arg]
      [] st = "filter" -> [l EXCEPT !.filter = arg]
      [] st = "filterEmpty" -> [l EXCEPT !.filter = <<>>]
      [] st = "idxZero" -> [l EXCEPT !.selectedIdx = 0]
      [] st = "filtered" ->
             IF l.filter = <<>>
             THEN [l EXCEPT !.filtered = l.allItems]
             ELSE [l EXCEPT !.filtered = filterLoop(l)]
      [] st = "clamp" -> clampSelectedIndex(l)
      [] st = "next" -> SelectNext(l)
      [] st = "prev" -> SelectPrev(l)

ConcWrite(g) ==
    /\ gcall[g].op \in Writers
    /\ gcall[g].held
    /\ gcall[g].todo # <<>>
    /\ clist' = WriteStatement(clist, Head(gcall[g].todo), gcall[g].arg)
    /\ gcall' = [gcall EXCEPT ![g].todo = Tail(@)]
    /\ UNCHANGED <<mu, seenTorn, panicked>>
    /\ UNCHANGED <<listVars, tickVars, retryVars, appVars, pollVars, aliasVars, classVars>>

\* the body of a reader: Selected indexes l.filtered[l.selectedIdx]
ConcRead(g) ==
    /\ gcall[g].op \in Readers
    /\ gcall[g].held
    /\ gcall[g].todo # <<>>
    /\ seenTorn' = (seenTorn \/ ~Consistent(clist))
    /\ panicked' = (panicked \/ (/\ gcall[g].op = "Selected"
                                 /\ Len(clist.filtered) # 0
                                 /\ clist.selectedIdx \notin 0..(Len(clist.filtered) - 1)))
    /\ gcall' = [gcall EXCEPT ![g].todo = Tail(@)]
    /\ UNCHANGED <<clist, mu>>
    /\ UNCHANGED <<listVars, tickVars, retryVars, appVars, pollVars, aliasVars, classVars>>

\* the deferred Unlock / RUnlock
ConcUnlock(g) ==
    /\ gcall[g].held
    /\ gcall[g].todo = <<>>
    /\ mu' = IF gcall[g].op \in Writers
             THEN [mu EXCEPT !.writer = 0]
             ELSE [mu EXCEPT !.readers = @ \ {g}]
    /\ gcall' = [gcall EXCEPT ![g] = Idle]
    /\ UNCHANGED <<clist, seenTorn, panicked>>
    /\ UNCHANGED <<listVars, tickVars, retryVars, appVars, pollVars, aliasVars, classVars>>

(***************************************************************************)
(* SpecTicker: one TickerTask.  Start() returns a function that the        *)
(* runtime runs on a goroutine of its own; Stop() may be called from the   *)
(* update function at any time, any number of times.                       *)
(***************************************************************************)
\* taskFn invocations that are counted (the counter stops there)
MaxProbes == 3

\* Stop() calls that are counted (no further call is made)
MaxStops == 3

NilMsg == [nil |-> TRUE]

\* what taskFn may return: nil to keep polling, or a message
ProbeResults == {NilMsg, [msg |-> "tick"], [msg |-> "tock"]}

NewTickerTask ==
    /\ tpc = "created"
    /\ ctxDone = FALSE
    /\ tickReady = FALSE
    /\ tresult = [msg |-> NilMsg, afterStop |-> FALSE]
    /\ probeCalls = 0
    /\ stops = 0
    /\ stoppedFirst = FALSE
    /\ probeLog = <<>>

TickFrame == UNCHANGED <<listVars, concVars, retryVars, appVars, pollVars, aliasVars, classVars>>

\* the runtime starts running the function Start() returned: time.NewTicker
TickerStart ==
    /\ tpc = "created"
    /\ tpc' = "select"
    /\ stoppedFirst' = ctxDone
    /\ UNCHANGED <<ctxDone, tickReady, tresult, probeCalls, stops, probeLog>>
    /\ TickFrame

\* Stop(): t.cancel(), which may be called again and again
TickerStop ==
    /\ stops < MaxStops
    /\ ctxDone' = TRUE
    /\ stops' = stops + 1
    /\ UNCHANGED <<tpc, tickReady, tresult, probeCalls, stoppedFirst, probeLog>>
    /\ TickFrame

\* an interval has elapsed: the ticker puts a tick in its channel of capacity 1
TickFires ==
    /\ tpc \in {"select", "probe"}
    /\ ~tickReady
    /\ tickReady' = TRUE
    /\ UNCHANGED <<tpc, ctxDone, tresult, probeCalls, stops, stoppedFirst, probeLog>>
    /\ TickFrame

\* a select statement without the cancellation case
doneReadyNever == FALSE

\* case <-t.ctx.Done() can proceed
doneReady == ctxDone

\* select takes case <-t.ctx.Done(): return nil
SelectDone ==
    /\ tpc = "select"
    /\ doneReady
    /\ tpc' = "returned"
    /\ tresult' = [msg |-> NilMsg, afterStop |-> ctxDone]
    /\ UNCHANGED <<ctxDone, tickReady, probeCalls, stops, stoppedFirst, probeLog>>
    /\ TickFrame

\* a select statement whose tick case can always proceed
tickCaseAlways == TRUE

\* case <-ticker.C can proceed
tickCase == tickReady

\* select takes case <-ticker.C: taskFn(t.ctx) is called.  When both cases
\* can proceed, select takes either.
SelectTick ==
    /\ tpc = "select"
    /\ tickCase
    /\ tickReady' = FALSE
    /\ tpc' = "probe"
    /\ probeCalls' = IF probeCalls < MaxProbes THEN probeCalls + 1 ELSE probeCalls
    /\ UNCHANGED <<ctxDone, tresult, stops, stoppedFirst, probeLog>>
    /\ TickFrame

\* taskFn returns: a non-nil message is returned, nil continues the loop
ProbeReturn ==
    /\ tpc = "probe"
    /\ \E m \in ProbeResults :
        /\ probeLog' = IF Len(probeLog) < MaxProbes
                       THEN Append(probeLog, m) ELSE probeLog
        /\ IF m # NilMsg
           THEN /\ tpc' = "returned"
                /\ tresult' = [msg |-> m, afterStop |-> ctxDone]
           ELSE /\ tpc' = "select"
                /\ UNCHANGED tresult
    /\ UNCHANGED <<ctxDone, tickReady, probeCalls, stops, stoppedFirst>>
    /\ TickFrame

TickerIdle == NewTickerTask

TickerNext ==
    \/ TickerStart
    \/ TickerStop
    \/ TickFires
    \/ SelectDone
    \/ SelectTick
    \/ ProbeReturn

(***************************************************************************)
(* SpecRetry: one call RetryWithBackoff(ctx, attempts, operation) with a   *)
(* context that is never cancelled, as every call site passes.  An error   *)
(* value is the chain errors.As walks: its layers from the outside in;     *)
(* nil is the empty chain.                                                 *)
(***************************************************************************)
\* the attempts every fetch command passes
FetchAttempts == 3

NoError == <<>>

AppErrRetryable == <<[t |-> "AppError", Retryable |-> TRUE]>>

AppErrFinal == <<[t |-> "AppError", Retryable |-> FALSE]>>

PlainErr == <<[t |-> "errorString"]>>

WrappedRetryable == <<[t |-> "wrapError"]>> \o AppErrRetryable

WrappedFinal == <<[t |-> "wrapError"]>> \o AppErrFinal

OpOutcomes ==
    {NoError, AppErrRetryable, AppErrFinal, PlainErr, WrappedRetryable, WrappedFinal}

\* errors.As(err, &appErr): the first *AppError of the chain, 0 if none
FirstAppError(e) ==
    LET hits == {i \in 1..Len(e) : e[i].t = "AppError"} IN
    IF hits = {} THEN 0 ELSE CHOOSE i \in hits : \A j \in hits : i <= j

\* a plausible slip: an error that is not classified counts as transient
IsRetryableByDefault(e) ==
    IF e = NoError
    THEN FALSE
    ELSE IF FirstAppError(e) # 0 THEN e[FirstAppError(e)].Retryable ELSE TRUE

\* a plausible slip: a type assertion on err itself in place of errors.As
IsRetryableNoUnwrap(e) ==
    IF e = NoError
    THEN FALSE
    ELSE IF e[1].t = "AppError" THEN e[1].Retryable ELSE FALSE

IsRetryable(e) ==
    IF e = NoError
    THEN FALSE
    ELSE IF FirstAppError(e) # 0 THEN e[FirstAppError(e)].Retryable ELSE FALSE

RetryInit ==
    /\ rpc = "invoke"
    /\ rscript \in [1..FetchAttempts -> OpOutcomes]
    /\ rattempts \in 1..FetchAttempts
    /\ rcalls = 0
    /\ rresult = NoError

RetryIdle ==
    /\ rpc = "idle"
    /\ rscript = [i \in 1..FetchAttempts |-> NoError]
    /\ rattempts = FetchAttempts
    /\ rcalls = 0
    /\ rresult = NoError

RetryFrame == UNCHANGED <<listVars, concVars, tickVars, appVars, pollVars, aliasVars, classVars>>

\* a plausible slip: one invocation more than the attempts asked for
exhaustedOffByOne(calls, attempts) == calls > attempts

\* the attempts are used up
exhausted(calls, attempts) == calls >= attempts

\* one invocation of the operation and the decision that follows it
RetryInvoke ==
    /\ rpc = "invoke"
    /\ LET e == rscript[rcalls + 1] IN
        /\ rcalls' = rcalls + 1
        /\ rresult' = e
        /\ rpc' = IF e = NoError THEN "done"
                  ELSE IF ~IsRetryable(e) THEN "done"
                  ELSE IF exhausted(rcalls + 1, rattempts) THEN "done"
                  ELSE "backoff"
    /\ UNCHANGED <<rscript, rattempts>>
    /\ RetryFrame

\* the backoff delay has passed
RetryBackoff ==
    /\ rpc = "backoff"
    /\ rpc' = "invoke"
    /\ UNCHANGED <<rscript, rattempts, rcalls, rresult>>
    /\ RetryFrame

RetryNext ==
    \/ RetryInvoke
    \/ RetryBackoff

AppIdle ==
    /\ app = NilMsg
    /\ cmds = EmptyBag
    /\ last = NilMsg
    /\ userActions = 0
    /\ remoteCalls = 0

(***************************************************************************)
(* App: the Bubble Tea model of app.go, constructed with a mock client     *)
(* and a mock clipboard.  A handler is an operator from the App (and the   *)
(* message) to the App it leaves and the commands it returns.  The spinner *)
(* and the scroll position of the log viewport are display state only and  *)
(* are left out; text the code inspects is a sequence of characters, a log *)
(* a sequence of lines.                                                    *)
(***************************************************************************)
MaxInFlight == 2

MaxActions == 2

\* the filter texts the user types
FilterTexts == {<<>>, <<"D">>, <<"x">>, <<"q">>}

\* the terminal: its size, and where the pointer is when the user clicks or
\* turns the wheel
TermSize == [Width |-> 100, Height |-> 16]

WorkflowsDirLen == 18

Line(kind, text) == [kind |-> kind, text |-> text, styled |-> FALSE]

\* what the mock client serves
ListWorkflows ==
    << [ID |-> 1, Name |-> <<"c", "i">>,
        Path |-> <<".", "g", "i", "t", "h", "u", "b", "/", "w", "o", "r", "k",
                   "f", "l", "o", "w", "s", "/", "c", "i">>],
       [ID |-> 2, Name |-> <<"d">>, Path |-> <<"d">>] >>

ListRuns(workflowID) ==
    CASE workflowID = 1 ->
            << [ID |-> 11, Status |-> "in_progress", Conclusion |-> "",
                Branch |-> <<"m">>, Actor |-> <<"d">>, URL |-> "u11"],
               [ID |-> 12, Status |-> "completed", Conclusion |-> "failure",
                Branch |-> <<"m">>, Actor |-> <<"x">>, URL |-> ""] >>
      [] workflowID = 2 ->
            << [ID |-> 21, Status |-> "completed", Conclusion |-> "success",
                Branch |-> <<"m">>, Actor |-> <<"x">>, URL |-> "u21"] >>
      [] OTHER -> NilSlice

ListJobs(runID) ==
    CASE runID = 11 -> << [ID |-> 111, Name |-> <<"b">>],
                          [ID |-> 112, Name |-> <<"d">>] >>
      [] runID = 12 -> << [ID |-> 121, Name |-> <<"d">>] >>
      [] OTHER -> NilSlice

GetJobLogs(jobID) ==
    CASE jobID = 111 -> << Line("group", "s1"), Line("text", "one"),
                           Line("endgroup", ""), Line("group", "s2"),
                           Line("secret", "token=...") >>
      [] jobID = 112 -> << Line("text", "two") >>
      [] OTHER -> <<>>

\* the error of a remote call that fails: a server error, which is retryable
RemoteOutcomes == {NoError, AppErrRetryable}

IsRunning(r) == r.Status = "in_progress" \/ r.Status = "queued"

IsFailed(r) == r.Conclusion = "failure"

SanitizeLogs(logs) ==
    [i \in 1..Len(logs) |->
        IF logs[i].kind = "secret" THEN Line("text", "[REDACTED]") ELSE logs[i]]

\* messages
KeyMsg(key) == [type |-> "tea.KeyMsg", key |-> key]

MouseMsg(x, y, button, action) ==
    [type |-> "tea.MouseMsg", X |-> x, Y |-> y, Button |-> button, Action |-> action]

\* commands: a handler returns the sequence of commands of its tea.Batch
Cmd(kind, key) == [kind |-> kind, key |-> key, file |-> <<>>]

NoCmd == Cmd("none", 0)

R(a, cs) == [a |-> a, cmds |-> cs]

NilLogs == [nil |-> TRUE]

Flash(text, arg) == [text |-> text, arg |-> arg]

New ==
    [workflows |-> NewFilteredList("workflowMatch"),
     runs |-> NewFilteredList("runMatch"),
     jobs |-> NewFilteredList("jobMatch"),
     focusedPane |-> "WorkflowsPane", detailTab |-> "LogsTab",
     width |-> 0, height |-> 0, logView |-> <<>>,
     loading |-> FALSE, err |-> NoError,
     showHelp |-> FALSE, showConfirm |-> FALSE, confirmFn |-> <<>>,
     filtering |-> FALSE, filterInput |-> <<>>,
     flashMsg |-> Flash("", <<>>), fullscreenLog |-> FALSE,
     mouseX |-> 0, mouseY |-> 0, clipboardFails |-> FALSE,
     parsedLogs |-> NilLogs, selectedStepIdx |-> -1, stepListFocused |-> TRUE]

\* FilteredList.Select: move the cursor to an index of the filtered view
Select(l, index) ==
    IF index >= 0 /\ index < Len(l.filtered)
    THEN [l EXCEPT !.selectedIdx = index]
    ELSE l

\* --- logs ---------------------------------------------------------------
ParseLogs(rawLogs) ==
    LET lines == rawLogs
        close(p, endLine) == Append(p.Steps, [p.cur[1] EXCEPT !.EndLine = endLine])
        scan[n \in 0..Len(lines)] ==
            IF n = 0
            THEN [Steps |-> <<>>, cur |-> <<>>]
            ELSE LET p == scan[n - 1]
                     line == lines[n]
                     i == n - 1
                 IN  CASE line.kind = "group" ->
                            [Steps |-> IF Len(p.cur) > 0 THEN close(p, i - 1)
                                       ELSE p.Steps,
                             cur |-> << [Name |-> line.text, Lines |-> <<line>>,
                                         StartLine |-> i, EndLine |-> 0] >>]
                       [] line.kind = "endgroup" ->
                            IF Len(p.cur) > 0
                            THEN [Steps |->
                                     Append(p.Steps,
                                            [p.cur[1] EXCEPT
                                                !.Lines = Append(@, line),
                                                !.EndLine = i]),
                                  cur |-> <<>>]
                            ELSE p
                       [] OTHER ->
                            IF Len(p.cur) > 0
                            THEN [p EXCEPT !.cur[1].Lines = Append(@, line)]
                            ELSE p
        fin == scan[Len(lines)]
    IN  [Steps |-> IF Len(fin.cur) > 0 THEN close(fin, Len(lines) - 1)
                   ELSE fin.Steps,
         RawLogs |-> rawLogs,
         AllLines |-> lines]

GetStepLogs(p, stepIndex) ==
    IF p = NilLogs THEN <<>>
    ELSE IF stepIndex = -1 THEN p.RawLogs
    ELSE IF stepIndex < 0 \/ stepIndex >= Len(p.Steps) THEN <<>>
    ELSE p.Steps[stepIndex + 1].Lines

FormatStepLogsWithColor(p, stepIndex) ==
    LET logs == GetStepLogs(p, stepIndex) IN
    [i \in 1..Len(logs) |-> [logs[i] EXCEPT !.styled = TRUE]]

Literal(text) == <<Line("text", text)>>

\* every line of the model fits the pane, so wrapLines splits none
updateLogViewContent(a) ==
    IF a.parsedLogs = NilLogs
    THEN [a EXCEPT !.logView = Literal("No logs available")]
    ELSE LET logs == FormatStepLogsWithColor(a.parsedLogs, a.selectedStepIdx) IN
         [a EXCEPT !.logView =
             IF logs = <<>> THEN Literal("No logs available") ELSE logs]

HasSteps(a) ==
    IF a.parsedLogs = NilLogs THEN FALSE ELSE Len(a.parsedLogs.Steps) > 0

navigateStepUp(a) ==
    IF ~HasSteps(a) THEN a
    ELSE IF a.selectedStepIdx > -1
    THEN updateLogViewContent([a EXCEPT !.selectedStepIdx = @ - 1])
    ELSE a

navigateStepDown(a) ==
    IF ~HasSteps(a) THEN a
    ELSE IF a.selectedStepIdx < Len(a.parsedLogs.Steps) - 1
    THEN updateLogViewContent([a EXCEPT !.selectedStepIdx = @ + 1])
    ELSE a

\* --- command generators and the commands --------------------------------
fetchWorkflowsCmd(a) == R([a EXCEPT !.loading = TRUE], <<Cmd("fetchWorkflows", 0)>>)

fetchRunsCmd(workflowID) == <<Cmd("fetchRuns", workflowID)>>

fetchJobsCmd(runID) == <<Cmd("fetchJobs", runID)>>

fetchLogsCmd(jobID) == <<Cmd("fetchLogs", jobID)>>

\* the fetch commands; err is what RetryWithBackoff returns
fetchWorkflows(err) ==
    [type |-> "WorkflowsLoadedMsg",
     Workflows |-> IF err = NoError THEN ListWorkflows ELSE NilSlice,
     Err |-> err]

fetchRuns(workflowID, err) ==
    [type |-> "RunsLoadedMsg",
     Runs |-> IF err = NoError THEN ListRuns(workflowID) ELSE NilSlice,
     Err |-> err]

fetchJobs(runID, err) ==
    [type |-> "JobsLoadedMsg",
     Jobs |-> IF err = NoError THEN ListJobs(runID) ELSE NilSlice,
     Err |-> err]

fetchLogs(jobID, err) ==
    [type |-> "LogsLoadedMsg",
     JobID |-> jobID,
     Logs |-> IF err = NoError THEN SanitizeLogs(GetJobLogs(jobID)) ELSE <<>>,
     Err |-> err]

ActionKinds == {"cancelRun", "rerunWorkflow", "rerunFailedJobs", "triggerWorkflow"}

ActionMsgType(kind) ==
    CASE kind = "cancelRun" -> "RunCancelledMsg"
      [] kind = "rerunWorkflow" -> "RunRerunMsg"
      [] kind = "rerunFailedJobs" -> "RerunFailedJobsMsg"
      [] kind = "triggerWorkflow" -> "WorkflowTriggeredMsg"

\* a plausible slip: the action goes through the retry policy of the fetches
callWithRetry(err) ==
    [calls |-> IF IsRetryable(err) THEN FetchAttempts ELSE 1, err |-> err]

\* cancelRun, rerunWorkflow, rerunFailedJobs, triggerWorkflow: the client is
\* called once and its error goes into the message
callOnce(err) == [calls |-> 1, err |-> err]

\* what running command c yields when its remote call returns err
Exec(c, err) ==
    CASE c.kind = "fetchWorkflows" ->
            [calls |-> 0, msg |-> fetchWorkflows(err)]
      [] c.kind = "fetchRuns" ->
            [calls |-> 0, msg |-> fetchRuns(c.key, err)]
      [] c.kind = "fetchJobs" ->
            [calls |-> 0, msg |-> fetchJobs(c.key, err)]
      [] c.kind = "fetchLogs" ->
            [calls |-> 0, msg |-> fetchLogs(c.key, err)]
      [] c.kind \in ActionKinds ->
            [calls |-> callOnce(err).calls,
             msg |-> [type |-> ActionMsgType(c.kind), RunID |-> c.key,
                      Workflow |-> c.file, Err |-> callOnce(err).err]]
      [] c.kind = "flashMessage" ->
            [calls |-> 0, msg |-> [type |-> "FlashMsg"]]
      [] c.kind = "flashClear" ->
            [calls |-> 0, msg |-> [type |-> "FlashClearMsg"]]
      [] OTHER ->
            [calls |-> 0, msg |-> [type |-> "tea.QuitMsg"]]

flashMessage == <<Cmd("flashMessage", 0), Cmd("flashClear", 0)>>

\* --- selection changes --------------------------------------------------
onWorkflowSelectionChange(a) ==
    LET s == Selected(a.workflows) IN
    IF s.ok
    THEN R([a EXCEPT !.loading = TRUE], fetchRunsCmd(s.item.ID))
    ELSE R(a, <<>>)

onRunSelectionChange(a) ==
    LET s == Selected(a.runs) IN
    IF s.ok
    THEN R([a EXCEPT !.loading = TRUE], fetchJobsCmd(s.item.ID))
    ELSE R(a, <<>>)

onJobSelectionChange(a) ==
    LET s == Selected(a.jobs) IN
    IF s.ok
    THEN R([a EXCEPT !.logView = Literal("Loading logs..."),
                     !.parsedLogs = NilLogs,
                     !.selectedStepIdx = -1,
                     !.stepListFocused = TRUE],
           fetchLogsCmd(s.item.ID))
    ELSE R(a, <<>>)

\* a plausible slip: the spinner is started but nothing is fetched
refreshAllNoFetch(a) == R([a EXCEPT !.loading = TRUE], <<>>)

refreshAll(a) == fetchWorkflowsCmd([a EXCEPT !.loading = TRUE])

\* a plausible slip: the runs of the first workflow shown are refetched
refreshCurrentWorkflowFirst(a) ==
    IF FLLen(a.workflows) > 0 THEN fetchRunsCmd(Items(a.workflows)[1].ID) ELSE <<>>

refreshCurrentWorkflow(a) ==
    LET s == Selected(a.workflows) IN
    IF s.ok THEN fetchRunsCmd(s.item.ID) ELSE <<>>

\* --- keyboard -----------------------------------------------------------
DefaultKeyMap ==
    [Up |-> {"k", "up"}, Down |-> {"j", "down"},
     Left |-> {"h", "left"}, Right |-> {"l", "right"},
     Tab |-> {"tab"}, ShiftTab |-> {"shift+tab"}, Enter |-> {"enter"},
     Trigger |-> {"t"}, Cancel |-> {"c"}, Rerun |-> {"r"},
     RerunFailed |-> {"R"}, Yank |-> {"y"}, Filter |-> {"/"},
     Refresh |-> {"ctrl+r"}, FullLog |-> {"L"}, Help |-> {"?"},
     Quit |-> {"q"}, Escape |-> {"esc"}]

\* the bindings app.go uses beyond those: their keys
PanelKeyMap ==
    [PanelUp |-> {"K"}, PanelDown |-> {"J"}, InfoTab |-> {"1"}, LogsTab |-> {"2"}]

Matches(key, binding) ==
    IF binding \in DOMAIN DefaultKeyMap
    THEN key \in DefaultKeyMap[binding]
    ELSE key \in PanelKeyMap[binding]

\* the keys that are one printable character
Runes ==
    {"k", "j", "h", "l", "t", "c", "r", "R", "y", "Y", "n", "N", "/", "L",
     "?", "q", "K", "J", "1", "2", "D", "x"}

CharLimit == 50

\* textinput.Model.Update, as far as the value goes
textinputUpdate(value, key) ==
    IF key \in Runes
    THEN IF Len(value) < CharLimit THEN Append(value, key) ELSE value
    ELSE IF key = "backspace" /\ Len(value) > 0
    THEN SubSeq(value, 1, Len(value) - 1)
    ELSE value

applyFilter_App(a, filter) ==
    CASE a.focusedPane = "WorkflowsPane" ->
            [a EXCEPT !.workflows = SetFilter(@, filter)]
      [] a.focusedPane = "RunsPane" ->
            [a EXCEPT !.runs = SetFilter(@, filter)]
      [] a.focusedPane = "JobsPane" ->
            [a EXCEPT !.jobs = SetFilter(@, filter)]

handleFilterInput(a, key) ==
    CASE key = "esc" ->
            R(applyFilter_App([a EXCEPT !.filtering = FALSE], <<>>), <<>>)
      [] key = "enter" ->
            R(applyFilter_App([a EXCEPT !.filtering = FALSE], a.filterInput), <<>>)
      [] OTHER ->
            R([a EXCEPT !.filterInput = textinputUpdate(@, key)], <<>>)

\* a plausible slip: the run is looked up when the user confirms
handleConfirmInputSelected(a, key) ==
    CASE key \in {"y", "Y"} ->
            R([a EXCEPT !.showConfirm = FALSE],
              IF a.confirmFn # <<>> /\ Selected(a.runs).ok
              THEN <<Cmd("cancelRun", Selected(a.runs).item.ID)>>
              ELSE <<>>)
      [] key \in {"n", "N", "esc"} ->
            R([a EXCEPT !.showConfirm = FALSE, !.confirmFn = <<>>], <<>>)
      [] OTHER -> R(a, <<>>)

handleConfirmInput(a, key) ==
    CASE key \in {"y", "Y"} ->
            R([a EXCEPT !.showConfirm = FALSE],
              IF a.confirmFn # <<>>
              THEN <<Cmd("cancelRun", a.confirmFn[1])>>
              ELSE <<>>)
      [] key \in {"n", "N", "esc"} ->
            R([a EXCEPT !.showConfirm = FALSE, !.confirmFn = <<>>], <<>>)
      [] OTHER -> R(a, <<>>)

StepNav(a) == a.detailTab = "LogsTab" /\ a.stepListFocused /\ HasSteps(a)

navigateUp(a) ==
    CASE a.focusedPane = "WorkflowsPane" ->
            onWorkflowSelectionChange([a EXCEPT !.workflows = SelectPrev(@)])
      [] a.focusedPane = "RunsPane" ->
            onRunSelectionChange([a EXCEPT !.runs = SelectPrev(@)])
      [] a.focusedPane = "JobsPane" ->
            IF StepNav(a) THEN R(navigateStepUp(a), <<>>)
            ELSE IF a.detailTab = "LogsTab" /\ ~a.stepListFocused THEN R(a, <<>>)
            ELSE onJobSelectionChange([a EXCEPT !.jobs = SelectPrev(@)])

navigateDown(a) ==
    CASE a.focusedPane = "WorkflowsPane" ->
            onWorkflowSelectionChange([a EXCEPT !.workflows = SelectNext(@)])
      [] a.focusedPane = "RunsPane" ->
            onRunSelectionChange([a EXCEPT !.runs = SelectNext(@)])
      [] a.focusedPane = "JobsPane" ->
            IF StepNav(a) THEN R(navigateStepDown(a), <<>>)
            ELSE IF a.detailTab = "LogsTab" /\ ~a.stepListFocused THEN R(a, <<>>)
            ELSE onJobSelectionChange([a EXCEPT !.jobs = SelectNext(@)])

focusPrevPane(a) ==
    CASE a.focusedPane = "RunsPane" -> [a EXCEPT !.focusedPane = "WorkflowsPane"]
      [] a.focusedPane = "JobsPane" -> [a EXCEPT !.focusedPane = "RunsPane"]
      [] OTHER -> a

focusNextPane(a) ==
    CASE a.focusedPane = "WorkflowsPane" -> [a EXCEPT !.focusedPane = "RunsPane"]
      [] a.focusedPane = "RunsPane" -> [a EXCEPT !.focusedPane = "JobsPane"]
      [] OTHER -> a

focusPrevPaneWithSelect(a) ==
    CASE a.focusedPane = "RunsPane" ->
            onWorkflowSelectionChange(focusPrevPane(a))
      [] a.focusedPane = "JobsPane" ->
            onRunSelectionChange(focusPrevPane(a))
      [] OTHER -> R(a, <<>>)

focusNextPaneWithSelect(a) ==
    CASE a.focusedPane = "WorkflowsPane" ->
            onRunSelectionChange(focusNextPane(a))
      [] a.focusedPane = "RunsPane" ->
            onJobSelectionChange(focusNextPane(a))
      [] OTHER -> R(a, <<>>)

confirmCancelRun(a) ==
    LET s == Selected(a.runs) IN
    IF ~s.ok THEN R(a, <<>>)
    ELSE IF ~IsRunning(s.item) THEN R(a, <<>>)
    ELSE R([a EXCEPT !.showConfirm = TRUE, !.confirmFn = <<s.item.ID>>], <<>>)

rerunWorkflow(a) ==
    LET s == Selected(a.runs) IN
    IF ~s.ok THEN <<>> ELSE <<Cmd("rerunWorkflow", s.item.ID)>>

\* a plausible slip: the conclusion of the run is not looked at
rerunFailedJobsAnyRun(a) ==
    LET s == Selected(a.runs) IN
    IF ~s.ok THEN <<>> ELSE <<Cmd("rerunFailedJobs", s.item.ID)>>

rerunFailedJobs(a) ==
    LET s == Selected(a.runs) IN
    IF ~s.ok THEN <<>>
    ELSE IF ~IsFailed(s.item) THEN <<>>
    ELSE <<Cmd("rerunFailedJobs", s.item.ID)>>

triggerWorkflow(a) ==
    LET s == Selected(a.workflows) IN
    IF ~s.ok THEN <<>>
    ELSE LET path == s.item.Path IN
         << [kind |-> "triggerWorkflow", key |-> 0,
             file |-> IF Len(path) > WorkflowsDirLen
                      THEN SubSeq(path, WorkflowsDirLen + 1, Len(path))
                      ELSE path] >>

\* both outcomes of clipboard.WriteAll end in flashMessage
yankURL(a) ==
    LET s == Selected(a.runs) IN
    IF ~s.ok THEN <<>>
    ELSE IF s.item.URL = "" THEN <<>>
    ELSE flashMessage

\* the bindings share no key, so at most one arm applies
handleKeyPress(a, key) ==
    IF a.filtering THEN handleFilterInput(a, key)
    ELSE IF a.showConfirm THEN handleConfirmInput(a, key)
    ELSE
    CASE Matches(key, "Quit") -> R(a, <<Cmd("quit", 0)>>)
      [] Matches(key, "Help") -> R([a EXCEPT !.showHelp = ~@], <<>>)
      [] Matches(key, "Escape") ->
            IF a.showHelp THEN R([a EXCEPT !.showHelp = FALSE], <<>>)
            ELSE IF a.fullscreenLog THEN R([a EXCEPT !.fullscreenLog = FALSE], <<>>)
            ELSE IF a.detailTab = "LogsTab" /\ a.focusedPane = "JobsPane"
                    /\ ~a.stepListFocused
            THEN R([a EXCEPT !.stepListFocused = TRUE], <<>>)
            ELSE IF a.err # NoError THEN refreshAll([a EXCEPT !.err = NoError])
            ELSE R(a, <<>>)
      [] Matches(key, "Enter") ->
            IF a.detailTab = "LogsTab" /\ a.focusedPane = "JobsPane"
               /\ a.stepListFocused
            THEN R([a EXCEPT !.stepListFocused = FALSE], <<>>)
            ELSE R(a, <<>>)
      [] Matches(key, "Up") -> navigateUp(a)
      [] Matches(key, "Down") -> navigateDown(a)
      [] Matches(key, "PanelUp") -> focusPrevPaneWithSelect(a)
      [] Matches(key, "PanelDown") -> focusNextPaneWithSelect(a)
      [] Matches(key, "Left") \/ Matches(key, "ShiftTab") -> R(focusPrevPane(a), <<>>)
      [] Matches(key, "Right") \/ Matches(key, "Tab") -> R(focusNextPane(a), <<>>)
      [] Matches(key, "Filter") -> R([a EXCEPT !.filtering = TRUE], <<>>)
      [] Matches(key, "FullLog") ->
            IF a.focusedPane = "JobsPane"
            THEN R([a EXCEPT !.fullscreenLog = TRUE], <<>>)
            ELSE R(a, <<>>)
      [] Matches(key, "Cancel") ->
            IF a.focusedPane = "RunsPane" THEN confirmCancelRun(a) ELSE R(a, <<>>)
      [] Matches(key, "Rerun") ->
            IF a.focusedPane = "RunsPane" THEN R(a, rerunWorkflow(a)) ELSE R(a, <<>>)
      [] Matches(key, "RerunFailed") ->
            IF a.focusedPane = "RunsPane" THEN R(a, rerunFailedJobs(a)) ELSE R(a, <<>>)
      [] Matches(key, "Trigger") ->
            IF a.focusedPane = "WorkflowsPane" THEN R(a, triggerWorkflow(a))
            ELSE R(a, <<>>)
      [] Matches(key, "Yank") -> R(a, yankURL(a))
      [] Matches(key, "Refresh") -> refreshAll(a)
      [] Matches(key, "InfoTab") -> R([a EXCEPT !.detailTab = "InfoTab"], <<>>)
      [] Matches(key, "LogsTab") -> R([a EXCEPT !.detailTab = "LogsTab"], <<>>)
      [] OTHER -> R(a, <<>>)

\* --- mouse --------------------------------------------------------------
\* int(float64(a.width) * 0.30), exact for the widths of the model
leftWidth(a) == Max(20, (a.width * 3) \div 10)

handleDetailPanelClick(a, y) ==
    IF a.detailTab # "LogsTab" \/ ~HasSteps(a) THEN a
    ELSE LET stepListStartY == 5
             stepCount == Len(a.parsedLogs.Steps)
             clickedIdx == y - stepListStartY - 1
         IN  IF y >= stepListStartY /\ y < stepListStartY + 1 + stepCount
                /\ clickedIdx >= -1 /\ clickedIdx < stepCount
             THEN updateLogViewContent(
                      [a EXCEPT !.selectedStepIdx = clickedIdx,
                                !.stepListFocused = TRUE])
             ELSE a

handleClick(a, x, y) ==
    LET totalHeight == Max(10, a.height - 1)
        panelHeight == Max(5, totalHeight \div 3)
        hit(l, itemIdx) == itemIdx >= 0 /\ itemIdx < FLLen(l)
    IN  IF x >= leftWidth(a) THEN R(handleDetailPanelClick(a, y), <<>>)
        ELSE IF y < panelHeight
        THEN LET b == [a EXCEPT !.focusedPane = "WorkflowsPane"] IN
             IF hit(b.workflows, y - 2)
             THEN onWorkflowSelectionChange(
                      [b EXCEPT !.workflows = Select(@, y - 2)])
             ELSE R(b, <<>>)
        ELSE IF y < 2 * panelHeight
        THEN LET b == [a EXCEPT !.focusedPane = "RunsPane"] IN
             IF hit(b.runs, y - panelHeight - 2)
             THEN onRunSelectionChange(
                      [b EXCEPT !.runs = Select(@, y - panelHeight - 2)])
             ELSE R(b, <<>>)
        ELSE IF y < totalHeight
        THEN LET b == [a EXCEPT !.focusedPane = "JobsPane"] IN
             IF hit(b.jobs, y - 2 * panelHeight - 2)
             THEN onJobSelectionChange(
                      [b EXCEPT !.jobs = Select(@, y - 2 * panelHeight - 2)])
             ELSE R(b, <<>>)
        ELSE R(a, <<>>)

handleScrollUp(a) ==
    IF a.mouseX >= leftWidth(a) /\ a.detailTab = "LogsTab" /\ HasSteps(a)
    THEN R(IF a.stepListFocused THEN navigateStepUp(a) ELSE a, <<>>)
    ELSE CASE a.focusedPane = "WorkflowsPane" ->
                 onWorkflowSelectionChange([a EXCEPT !.workflows = SelectPrev(@)])
           [] a.focusedPane = "RunsPane" ->
                 onRunSelectionChange([a EXCEPT !.runs = SelectPrev(@)])
           [] a.focusedPane = "JobsPane" ->
                 onJobSelectionChange([a EXCEPT !.jobs = SelectPrev(@)])

handleScrollDown(a) ==
    IF a.mouseX >= leftWidth(a) /\ a.detailTab = "LogsTab" /\ HasSteps(a)
    THEN R(IF a.stepListFocused THEN navigateStepDown(a) ELSE a, <<>>)
    ELSE CASE a.focusedPane = "WorkflowsPane" ->
                 onWorkflowSelectionChange([a EXCEPT !.workflows = SelectNext(@)])
           [] a.focusedPane = "RunsPane" ->
                 onRunSelectionChange([a EXCEPT !.runs = SelectNext(@)])
           [] a.focusedPane = "JobsPane" ->
                 onJobSelectionChange([a EXCEPT !.jobs = SelectNext(@)])

\* a plausible slip: the filter input is not among the popups
handleMouseEventInFilter(a0, msg) ==
    LET a == [a0 EXCEPT !.mouseX = msg.X, !.mouseY = msg.Y] IN
    IF a.showHelp \/ a.showConfirm \/ a.fullscreenLog
    THEN R(a, <<>>)
    ELSE CASE msg.Button = "WheelUp" -> handleScrollUp(a)
           [] msg.Button = "WheelDown" -> handleScrollDown(a)
           [] msg.Button = "Left" /\ msg.Action = "Release" ->
                 handleClick(a, msg.X, msg.Y)
           [] OTHER -> R(a, <<>>)

handleMouseEvent(a0, msg) ==
    LET a == [a0 EXCEPT !.mouseX = msg.X, !.mouseY = msg.Y] IN
    IF a.showHelp \/ a.showConfirm \/ a.fullscreenLog \/ a.filtering
    THEN R(a, <<>>)
    ELSE CASE msg.Button = "WheelUp" -> handleScrollUp(a)
           [] msg.Button = "WheelDown" -> handleScrollDown(a)
           [] msg.Button = "Left" /\ msg.Action = "Release" ->
                 handleClick(a, msg.X, msg.Y)
           [] OTHER -> R(a, <<>>)

\* --- Update -------------------------------------------------------------
\* a plausible slip: the result is applied whatever job is selected
onLogsLoadedUngated(a, msg) ==
    IF msg.Err # NoError
    THEN [a EXCEPT !.err = msg.Err,
                   !.logView = Literal("Failed to load logs"),
                   !.parsedLogs = NilLogs]
    ELSE updateLogViewContent([a EXCEPT !.parsedLogs = ParseLogs(msg.Logs)])

\* a plausible slip: logs that are displayed are not replaced
onLogsLoadedFirstWins(a, msg) ==
    LET s == Selected(a.jobs) IN
    IF s.ok /\ s.item.ID = msg.JobID /\ a.parsedLogs = NilLogs
    THEN IF msg.Err # NoError
         THEN [a EXCEPT !.err = msg.Err,
                        !.logView = Literal("Failed to load logs"),
                        !.parsedLogs = NilLogs]
         ELSE updateLogViewContent([a EXCEPT !.parsedLogs = ParseLogs(msg.Logs)])
    ELSE a

\* case LogsLoadedMsg of Update
onLogsLoaded(a, msg) ==
    LET s == Selected(a.jobs) IN
    IF s.ok /\ s.item.ID = msg.JobID
    THEN IF msg.Err # NoError
         THEN [a EXCEPT !.err = msg.Err,
                        !.logView = Literal("Failed to load logs"),
                        !.parsedLogs = NilLogs]
         ELSE updateLogViewContent([a EXCEPT !.parsedLogs = ParseLogs(msg.Logs)])
    ELSE a

\* a plausible slip: the runs are refetched whatever the outcome
onActionResultRefreshAlways(a, msg, flash) ==
    IF msg.Err # NoError
    THEN R([a EXCEPT !.err = msg.Err], refreshCurrentWorkflow(a))
    ELSE R([a EXCEPT !.flashMsg = flash], refreshCurrentWorkflow(a))

\* the cases of the four action results
onActionResult(a, msg, flash) ==
    IF msg.Err # NoError
    THEN R([a EXCEPT !.err = msg.Err], <<>>)
    ELSE R([a EXCEPT !.flashMsg = flash], refreshCurrentWorkflow(a))

\* a plausible slip: a failed load empties the lists
onLoadErrorClears(a, msg) ==
    R([a EXCEPT !.err = msg.Err,
                !.runs = SetItems(@, NilSlice),
                !.jobs = SetItems(@, NilSlice)], <<>>)

\* the error branch of the three loaded-results: a.err = msg.Err
onLoadError(a, msg) == R([a EXCEPT !.err = msg.Err], <<>>)

Update(a0, msg) ==
    CASE msg.type = "tea.KeyMsg" -> handleKeyPress(a0, msg.key)
      [] msg.type = "tea.MouseMsg" -> handleMouseEvent(a0, msg)
      [] msg.type = "tea.WindowSizeMsg" ->
            R([a0 EXCEPT !.width = msg.Width, !.height = msg.Height], <<>>)
      [] msg.type = "WorkflowsLoadedMsg" ->
            LET a == [a0 EXCEPT !.loading = FALSE] IN
            IF msg.Err # NoError THEN onLoadError(a, msg)
            ELSE LET b == [a EXCEPT !.workflows =
                                  SetItems(@, msg.Workflows)]
                 IN  IF FLLen(b.workflows) > 0
                     THEN R(b, fetchRunsCmd(Selected(b.workflows).item.ID))
                     ELSE R(b, <<>>)
      [] msg.type = "RunsLoadedMsg" ->
            LET a == [a0 EXCEPT !.loading = FALSE] IN
            IF msg.Err # NoError THEN onLoadError(a, msg)
            ELSE LET b == [a EXCEPT !.runs = SetItems(@, msg.Runs)]
                 IN  IF FLLen(b.runs) > 0
                     THEN R(b, fetchJobsCmd(Selected(b.runs).item.ID))
                     ELSE R(b, <<>>)
      [] msg.type = "JobsLoadedMsg" ->
            LET a == [a0 EXCEPT !.loading = FALSE] IN
            IF msg.Err # NoError THEN onLoadError(a, msg)
            ELSE LET b == [a EXCEPT !.jobs = SetItems(@, msg.Jobs)]
                 IN  IF FLLen(b.jobs) > 0
                     THEN R(b, fetchLogsCmd(Selected(b.jobs).item.ID))
                     ELSE R(b, <<>>)
      [] msg.type = "LogsLoadedMsg" -> R(onLogsLoaded(a0, msg), <<>>)
      [] msg.type = "RunCancelledMsg" ->
            onActionResult(a0, msg, Flash("Run cancelled", <<>>))
      [] msg.type = "RunRerunMsg" ->
            onActionResult(a0, msg, Flash("Rerun triggered", <<>>))
      [] msg.type = "RerunFailedJobsMsg" ->
            onActionResult(a0, msg, Flash("Rerun failed jobs triggered", <<>>))
      [] msg.type = "WorkflowTriggeredMsg" ->
            onActionResult(a0, msg, Flash("Workflow triggered: ", msg.Workflow))
      [] msg.type = "FlashClearMsg" -> R([a0 EXCEPT !.flashMsg = Flash("", <<>>)], <<>>)
      [] OTHER -> R(a0, <<>>)

\* --- the runtime --------------------------------------------------------
\* tea.Batch: the commands a handler returned start running
Batch(cs) ==
    LET b[i \in 0..Len(cs)] ==
            IF i = 0 THEN EmptyBag ELSE b[i - 1] (+) SetToBag({cs[i]})
    IN  b[Len(cs)]

\* New() followed by Init()
AppInit ==
    /\ app = fetchWorkflowsCmd(New).a
    /\ cmds = Batch(fetchWorkflowsCmd(New).cmds)
    /\ last = [cmd |-> NoCmd, err |-> NoError, input |-> "none"]
    /\ userActions = 0
    /\ remoteCalls = 0

AppFrame == UNCHANGED <<listVars, concVars, tickVars, retryVars, aliasVars, classVars>>

\* tea.Quit ends the program
Running == \A c \in BagToSet(cmds) : c.kind # "quit"

\* the runtime hands msg, the result of command c with error err if it is
\* one, to Update and starts the commands Update returns
Dispatch(msg, c, err) ==
    /\ Running
    /\ \E r \in {Update(app, msg)} :
        \E next \in {(IF c = NoCmd THEN cmds ELSE cmds (-) SetToBag({c}))
                        (+) Batch(r.cmds)} :
            /\ BagCardinality(next) <= MaxInFlight
            /\ r.a.filterInput \in FilterTexts
            /\ app' = r.a
            /\ cmds' = next
            /\ last' = [cmd |-> c, err |-> err, input |-> msg.type]
    /\ AppFrame

\* history: the key press asks for a side-effecting action
UserAction(a, key) ==
    IF a.filtering THEN FALSE
    ELSE IF a.showConfirm THEN key \in {"y", "Y"} /\ a.confirmFn # <<>>
    ELSE \/ /\ Matches(key, "Rerun")
            /\ a.focusedPane = "RunsPane"
            /\ Selected(a.runs).ok
         \/ /\ Matches(key, "RerunFailed")
            /\ a.focusedPane = "RunsPane"
            /\ Selected(a.runs).ok
            /\ IsFailed(Selected(a.runs).item)
         \/ /\ Matches(key, "Trigger")
            /\ a.focusedPane = "WorkflowsPane"
            /\ Selected(a.workflows).ok

KeyPress(keys) ==
    \E key \in keys :
        /\ Dispatch(KeyMsg(key), NoCmd, NoError)
        /\ userActions' = userActions + (IF UserAction(app, key) THEN 1 ELSE 0)
        /\ userActions' <= MaxActions
        /\ UNCHANGED remoteCalls
        /\ UNCHANGED pollVars

Mouse(events) ==
    \E msg \in events :
        /\ Dispatch(msg, NoCmd, NoError)
        /\ UNCHANGED <<userActions, remoteCalls>>
        /\ UNCHANGED pollVars

Resize ==
    /\ Dispatch([type |-> "tea.WindowSizeMsg", Width |-> TermSize.Width,
                 Height |-> TermSize.Height], NoCmd, NoError)
    /\ UNCHANGED <<userActions, remoteCalls>>
    /\ UNCHANGED pollVars

\* a command finishes and its message is delivered
Deliver(fetchOutcomes, actionOutcomes) ==
    \E c \in BagToSet(cmds) :
        \E err \in IF c.kind \in ActionKinds THEN actionOutcomes ELSE fetchOutcomes :
        \E x \in {Exec(c, err)} :
            /\ Dispatch(x.msg, c, err)
            /\ remoteCalls' = remoteCalls + x.calls
            /\ UNCHANGED userActions
            /\ UNCHANGED pollVars

\* Spec: the fetch cascade under keyboard navigation and filtering, with
\* remote calls that may fail
SyncKeys == {"j", "k", "tab", "/", "D", "enter"}

SyncKeyPress == KeyPress(SyncKeys)

SyncDeliver == Deliver(RemoteOutcomes, RemoteOutcomes)

Next ==
    \/ SyncKeyPress
    \/ SyncDeliver

\* SpecMouse: the fetch cascade under clicks and the wheel, in a terminal of
\* TermSize: a click on the second workflow, the second run, the first job
\* and the first step, the wheel over the lists and over the detail panel
MouseEvents ==
    {MouseMsg(5, 3, "Left", "Release"), MouseMsg(5, 8, "Left", "Release"),
     MouseMsg(5, 12, "Left", "Release"), MouseMsg(50, 6, "Left", "Release"),
     MouseMsg(5, 3, "WheelDown", "Press"), MouseMsg(5, 3, "WheelUp", "Press"),
     MouseMsg(50, 6, "WheelDown", "Press")}

MouseEvent == Mouse(MouseEvents)

MouseDeliver == Deliver({NoError}, {NoError})

MouseNext ==
    \/ MouseEvent
    \/ Resize
    \/ MouseDeliver

\* SpecActions: the side-effecting actions
ActionKeys == {"j", "l", "c", "r", "R", "t", "y", "n"}

ActionKeyPress == KeyPress(ActionKeys)

\* here only the actions fail
ActionDeliver == Deliver({NoError}, RemoteOutcomes)

ActionsNext ==
    \/ ActionKeyPress
    \/ ActionDeliver

\* SpecRefresh: one side-effecting action, with a filter that can empty the
\* list in focus while the action is under way
RefreshKeys == {"l", "j", "c", "y", "r", "R", "t", "/", "x", "enter"}

MaxRefreshActions == 1

RefreshKeyPress == KeyPress(RefreshKeys) /\ userActions' <= MaxRefreshActions

RefreshDeliver == Deliver({NoError}, RemoteOutcomes)

\* SpecErrors: fetches and one action that may fail, with the keys that open
\* the filter input, the confirm dialog and the log content, and Escape
ErrorKeys == {"tab", "j", "r", "c", "enter", "esc", "/"}

ErrorKeyPress == KeyPress(ErrorKeys) /\ userActions' <= MaxRefreshActions

ErrorDeliver == Deliver(RemoteOutcomes, RemoteOutcomes)

ErrorsNext ==
    \/ ErrorKeyPress
    \/ ErrorDeliver

RefreshNext ==
    \/ RefreshKeyPress
    \/ RefreshDeliver

\* SpecModes: keys and the mouse while the filter input, the confirm dialog,
\* the help or the fullscreen log is open
ModeKeys == {"l", "down", "/", "q", "enter", "esc", "c", "y", "n", "?", "L"}

ModeMouseEvents ==
    {MouseMsg(5, 3, "Left", "Release"), MouseMsg(5, 3, "WheelDown", "Press")}

\* confirmed cancels in one behaviour of SpecModes
MaxModeActions == 1

\* the user acts while no command is under way
ModeKeyPress ==
    KeyPress(ModeKeys) /\ cmds = EmptyBag /\ userActions' <= MaxModeActions

ModeMouse == Mouse(ModeMouseEvents) /\ cmds = EmptyBag

ModeDeliver == Deliver({NoError}, {NoError})

ModesNext ==
    \/ ModeKeyPress
    \/ ModeMouse
    \/ ModeDeliver

(***************************************************************************)
(* SpecAlias: the slices of one FilteredList[testItem] as references.  A   *)
(* Go slice is a view of a backing array: assigning a slice copies the     *)
(* reference, not the elements.  heap holds the backing arrays in the      *)
(* order they were allocated and a slice is the index of its array (every  *)
(* slice the list holds spans its whole array).  The contents the methods  *)
(* compute are those of the operators above; what is added here is which   *)
(* array each field refers to.                                             *)
(***************************************************************************)
\* backing arrays allocated in one behaviour of SpecAlias
MaxArrays == 5

NoSlice == [ref |-> 0, then |-> <<>>]

\* the list with its slices replaced by their contents
Deref(l) ==
    [allItems |-> heap[l.allItems], filtered |-> heap[l.filtered],
     filter |-> l.filter, selectedIdx |-> l.selectedIdx, matchFn |-> "testMatchFn"]

\* NewFilteredList: allItems and filtered are two make([]T, 0)
AliasInit ==
    /\ heap = << <<>>, <<>> >>
    /\ alist = [allItems |-> 1, filtered |-> 2, filter |-> <<>>, selectedIdx |-> 0]
    /\ got = NoSlice
    /\ acall = NoCall

AliasIdle == AliasInit

AliasFrame ==
    UNCHANGED <<listVars, concVars, tickVars, retryVars, appVars, pollVars, classVars>>

\* applyFilter: l.filtered = l.allItems shares the array of allItems, the
\* other branch fills an array of its own; v is the list by value after it
applyFilterRefs(h, allRef, v) ==
    IF v.filter = <<>>
    THEN [heap |-> h,
          list |-> [allItems |-> allRef, filtered |-> allRef,
                    filter |-> v.filter, selectedIdx |-> v.selectedIdx]]
    ELSE [heap |-> Append(h, v.filtered),
          list |-> [allItems |-> allRef, filtered |-> Len(h) + 1,
                    filter |-> v.filter, selectedIdx |-> v.selectedIdx]]

\* SetItems: l.allItems = items keeps the caller's array (a new empty one
\* for nil)
AliasSetItems ==
    \E items \in ItemSlices :
        \E v \in {SetItems(Deref(alist), items)} :
        \E r \in {applyFilterRefs(Append(heap, v.allItems), Len(heap) + 1, v)} :
            /\ Len(r.heap) <= MaxArrays
            /\ heap' = r.heap
            /\ alist' = r.list
            /\ acall' = [op |-> "SetItems", arg |-> items]
            /\ UNCHANGED got
            /\ AliasFrame

AliasSetFilter ==
    \E f \in TestFilters :
        \E r \in {applyFilterRefs(heap, alist.allItems, SetFilter(Deref(alist), f))} :
            /\ Len(r.heap) <= MaxArrays
            /\ heap' = r.heap
            /\ alist' = r.list
            /\ acall' = [op |-> "SetFilter", arg |-> f]
            /\ UNCHANGED got
            /\ AliasFrame

\* Items(): return l.filtered, the slice itself (l.filtered is never nil
\* after NewFilteredList)
ItemsRef(l) == l.filtered

\* a caller keeps what Items() returned
AliasItems ==
    /\ got' = [ref |-> ItemsRef(alist), then |-> heap[ItemsRef(alist)]]
    /\ acall' = [op |-> "Items", arg |-> <<>>]
    /\ UNCHANGED <<heap, alist>>
    /\ AliasFrame

\* the caller assigns to an element of the slice it was returned
AliasWrite ==
    /\ got.ref # 0
    /\ \E i \in 1..Len(heap[got.ref]) :
        \E x \in TestItems :
            /\ heap[got.ref][i] # x
            /\ heap' = [heap EXCEPT ![got.ref][i] = x]
            /\ acall' = [op |-> "write", arg |-> <<i - 1, x>>]
    /\ UNCHANGED <<alist, got>>
    /\ AliasFrame

AliasNext ==
    \/ AliasSetItems
    \/ AliasSetFilter
    \/ AliasItems
    \/ AliasWrite

(***************************************************************************)
(* AdaptivePoller.  A time.Duration is counted in milliseconds here.       *)
(***************************************************************************)
Second == 1000

\* the remaining rate limits NextInterval() is tried on: -MaxRemaining..MaxRemaining
MaxRemaining == 1001

RateLimits == (0 - MaxRemaining)..MaxRemaining

NewAdaptivePoller == [baseInterval |-> 2 * Second, maxInterval |-> 30 * Second]

\* a plausible slip: the factors of the two middle bands change places
NextIntervalSwapped(p, remaining) ==
    IF remaining < 100 THEN p.maxInterval
    ELSE IF remaining < 500 THEN (p.baseInterval * 3) \div 2
    ELSE IF remaining < 1000 THEN p.baseInterval * 2
    ELSE p.baseInterval

\* a plausible slip: the thresholds belong to the lower band
NextIntervalInclusive(p, remaining) ==
    IF remaining <= 100 THEN p.maxInterval
    ELSE IF remaining <= 500 THEN p.baseInterval * 2
    ELSE IF remaining <= 1000 THEN (p.baseInterval * 3) \div 2
    ELSE p.baseInterval

\* the switch of NextInterval; time.Duration(float64(base) * 1.5) truncates
NextInterval(p, remaining) ==
    IF remaining < 100 THEN p.maxInterval
    ELSE IF remaining < 500 THEN p.baseInterval * 2
    ELSE IF remaining < 1000 THEN (p.baseInterval * 3) \div 2
    ELSE p.baseInterval

Structures == {"App", "FilteredList", "rateLimit"}

\* New and NewClient run before the program starts, in the context that
\* later runs Update
PollInit ==
    /\ logPoller = 0
    /\ tasks = <<>>
    /\ rateLimit = 5000
    /\ interval = 0
    /\ touched = [s \in Structures |-> [r |-> {}, w |-> {"update"}]]

PollIdle == PollInit

\* SpecInterval: getRateLimit() returns any of RateLimits
IntervalInit ==
    /\ logPoller = 0
    /\ tasks = <<>>
    /\ rateLimit \in RateLimits
    /\ interval = 0
    /\ touched = [s \in Structures |-> [r |-> {}, w |-> {"update"}]]

CallNextInterval ==
    /\ interval = 0
    /\ interval' = NextInterval(NewAdaptivePoller, rateLimit)
    /\ UNCHANGED <<logPoller, tasks, rateLimit, touched>>
    /\ UNCHANGED <<listVars, concVars, tickVars, retryVars, appVars, aliasVars, classVars>>

IntervalNext == CallNextInterval

(***************************************************************************)
(* SpecPoll: the App with the real client and log polling.  Every remote   *)
(* call of realClient ends in updateRateLimit, on the goroutine of the     *)
(* command or of the polling probe that made it.  StartLogPolling and      *)
(* StopLogPolling are methods the owner of the App calls between two       *)
(* Updates.                                                                *)
(***************************************************************************)
\* TickerTasks created in one behaviour of SpecPoll
MaxTasks == 2

\* resp.Rate.Remaining of the responses
RateResponses == {80}

\* history: context ctx reads (mode "r") or writes (mode "w") structure s
Touch(t, s, mode, ctx) == [t EXCEPT ![s][mode] = @ \cup {ctx}]

updateRateLimit(remaining) == remaining

RateLimitRemaining == rateLimit

\* TickerTask.Stop on task i of ts
StopTask(ts, i) == [ts EXCEPT ![i].cancelled = TRUE]

\* a plausible slip: the poller in place is left running
stopOldSkipped(ts, lp) == ts

\* if a.logPoller != nil { a.logPoller.Stop() }
stopOld(ts, lp) == IF lp # 0 THEN StopTask(ts, lp) ELSE ts

PollFrame == UNCHANGED appVars /\ AppFrame

\* "starts log polling for a running job": called while a job is selected
StartLogPolling ==
    /\ Running
    /\ Len(tasks) < MaxTasks
    /\ Selected(app.jobs).ok
    /\ interval' = NextInterval(NewAdaptivePoller, RateLimitRemaining)
    /\ tasks' = Append(stopOld(tasks, logPoller),
                       [cancelled |-> FALSE, pc |-> "created", job |-> 0,
                        interval |-> interval'])
    /\ logPoller' = Len(tasks')
    /\ touched' = Touch(touched, "rateLimit", "r", "update")
    /\ UNCHANGED rateLimit
    /\ PollFrame

StopLogPolling ==
    /\ Running
    /\ logPoller # 0
    /\ tasks' = StopTask(tasks, logPoller)
    /\ logPoller' = 0
    /\ UNCHANGED <<rateLimit, interval, touched>>
    /\ PollFrame

\* the runtime runs the command Start() returned
TaskRun(i) ==
    /\ tasks[i].pc = "created"
    /\ tasks' = [tasks EXCEPT ![i].pc = "select"]
    /\ UNCHANGED <<logPoller, rateLimit, interval, touched>>
    /\ PollFrame

\* select takes case <-t.ctx.Done()
TaskSelectDone(i) ==
    /\ tasks[i].pc = "select"
    /\ tasks[i].cancelled
    /\ tasks' = [tasks EXCEPT ![i].pc = "returned"]
    /\ UNCHANGED <<logPoller, rateLimit, interval, touched>>
    /\ PollFrame

\* select takes case <-ticker.C and the probe starts: it reads the selected
\* job and, if there is one, asks for its logs
TaskSelectTick(i) ==
    /\ tasks[i].pc = "select"
    /\ LET s == Selected(app.jobs) IN
       tasks' = IF s.ok
                THEN [tasks EXCEPT ![i].pc = "probe", ![i].job = s.item.ID]
                ELSE tasks
    /\ touched' = Touch(touched, "FilteredList", "r", "poller")
    /\ UNCHANGED <<logPoller, rateLimit, interval>>
    /\ PollFrame

\* GetJobLogs returns to the probe: with the context cancelled the probe
\* returns nil and the loop goes on, otherwise the function Start() returned
\* returns the LogsLoadedMsg and the runtime hands it to Update
TaskProbeReturn(i) ==
    /\ tasks[i].pc = "probe"
    /\ \E remaining \in RateResponses :
        /\ rateLimit' = updateRateLimit(remaining)
        /\ touched' = Touch(touched, "rateLimit", "w", "poller")
    /\ IF tasks[i].cancelled
       THEN /\ tasks' = [tasks EXCEPT ![i].pc = "select"]
            /\ PollFrame
       ELSE /\ tasks' = [tasks EXCEPT ![i].pc = "returned"]
            /\ Dispatch([type |-> "LogsLoadedMsg", JobID |-> tasks[i].job,
                         Logs |-> GetJobLogs(tasks[i].job), Err |-> NoError],
                        NoCmd, NoError)
            /\ UNCHANGED <<userActions, remoteCalls>>
    /\ UNCHANGED <<logPoller, interval>>

\* the keys that reach the jobs pane and move its cursor
PollKeys == {"tab", "j"}

PollKeyPress == KeyPress(PollKeys)

\* a fetch command finishes: its remote call has set the rate limit
PollDeliver ==
    \E c \in BagToSet(cmds) :
        \E x \in {Exec(c, NoError)} :
            /\ Dispatch(x.msg, c, NoError)
            /\ \E remaining \in RateResponses :
                rateLimit' = updateRateLimit(remaining)
            /\ touched' = Touch(touched, "rateLimit", "w", "command")
            /\ UNCHANGED <<userActions, remoteCalls>>
            /\ UNCHANGED <<logPoller, tasks, interval>>

PollNext ==
    \/ PollKeyPress
    \/ PollDeliver
    \/ StartLogPolling
    \/ StopLogPolling
    \/ \E i \in DOMAIN tasks : TaskRun(i)
    \/ \E i \in DOMAIN tasks : TaskSelectDone(i)
    \/ \E i \in DOMAIN tasks : TaskSelectTick(i)
    \/ \E i \in DOMAIN tasks : TaskProbeReturn(i)

(***************************************************************************)
(* SpecClassify: one error value classified by WrapAPIError and asked      *)
(* about by IsRetryable.  An error value is the sequence of the errors     *)
(* errors.As examines, from the outside in; a *ghlib.ErrorResponse carries *)
(* the status code and the X-RateLimit-Remaining header of its Response    *)
(* ("" when the header is absent).                                         *)
(***************************************************************************)
StatusCodes == {200, 304, 400, 401, 402, 403, 404, 405, 422, 428, 429, 430,
                499, 500, 501, 502, 503, 504, 599, 600}

RemainingHeaders == {"", "0", "00", "1", "5000"}

ErrorResponse(status, remaining) ==
    <<[t |-> "ErrorResponse", StatusCode |-> status, Remaining |-> remaining]>>

\* an error of the client library that is not an *ErrorResponse
RateLimitError(status, remaining) ==
    <<[t |-> "RateLimitError", StatusCode |-> status, Remaining |-> remaining]>>

\* fmt.Errorf("...: %w", err)
Errorf(err) == <<[t |-> "wrapError"]>> \o err

\* the (*AppError)(nil) WrapAPIError returns for nil
NilAppError == [nil |-> TRUE]

AppError(type, cause, retryable) ==
    [Type |-> type, Cause |-> cause, Retryable |-> retryable]

\* a non-nil *AppError as an error value: itself, then what Unwrap() yields
AsError(r) ==
    <<[t |-> "AppError", Type |-> r.Type, Retryable |-> r.Retryable]>> \o r.Cause

\* errors.As(err, &ghErr): the first *ErrorResponse of the chain, 0 if none
FirstErrorResponse(e) ==
    LET hits == {i \in 1..Len(e) : e[i].t = "ErrorResponse"} IN
    IF hits = {} THEN 0 ELSE CHOOSE i \in hits : \A j \in hits : i <= j

\* a plausible slip: case 403 without the look at the header
WrapAPIErrorNoHeader(err) ==
    IF err = NoError THEN NilAppError
    ELSE LET i == FirstErrorResponse(err) IN
         IF i = 0 THEN AppError("ErrTypeUnknown", err, FALSE)
         ELSE LET code == err[i].StatusCode IN
              CASE code = 401 -> AppError("ErrTypeAuth", err, FALSE)
                [] code = 403 -> AppError("ErrTypeAuth", err, FALSE)
                [] code = 404 -> AppError("ErrTypeNotFound", err, FALSE)
                [] code = 429 -> AppError("ErrTypeRateLimit", err, TRUE)
                [] OTHER ->
                    IF code >= 500
                    THEN AppError("ErrTypeServer", err, TRUE)
                    ELSE AppError("ErrTypeUnknown", err, FALSE)

WrapAPIError(err) ==
    IF err = NoError THEN NilAppError
    ELSE LET i == FirstErrorResponse(err) IN
         IF i = 0 THEN AppError("ErrTypeUnknown", err, FALSE)
         ELSE LET code == err[i].StatusCode IN
              CASE code = 401 -> AppError("ErrTypeAuth", err, FALSE)
                [] code = 403 ->
                    IF err[i].Remaining = "0"
                    THEN AppError("ErrTypeRateLimit", err, TRUE)
                    ELSE AppError("ErrTypeAuth", err, FALSE)
                [] code = 404 -> AppError("ErrTypeNotFound", err, FALSE)
                [] code = 429 -> AppError("ErrTypeRateLimit", err, TRUE)
                [] OTHER ->
                    IF code >= 500
                    THEN AppError("ErrTypeServer", err, TRUE)
                    ELSE AppError("ErrTypeUnknown", err, FALSE)

\* the errors of the library and of the tests
APIErrors ==
    {ErrorResponse(s, h) : s \in StatusCodes, h \in RemainingHeaders}
        \cup {RateLimitError(403, "0"), RateLimitError(429, "0")}

ErrInputs ==
    OpOutcomes \cup APIErrors \cup {Errorf(e) : e \in APIErrors}
        \cup {<<[t |-> "joinError"], [t |-> "errorString"]>> \o AppErrRetryable,
              Errorf(AppErrFinal \o AppErrRetryable),
              Errorf(AppErrRetryable \o AppErrFinal)}

NotCalled == [called |-> FALSE]

\* what a call returned
Returned(v) == [called |-> TRUE, value |-> v]

\* no error value: IsRetryable has not been called
NotChecked == <<[t |-> "none"]>>

ClassInit ==
    /\ cerr \in ErrInputs
    /\ cwrapped = NotCalled
    /\ cchecked = NotChecked
    /\ cretry = NotCalled

ClassIdle ==
    /\ cerr = NoError
    /\ cwrapped = NotCalled
    /\ cchecked = NotChecked
    /\ cretry = NotCalled

ClassFrame ==
    UNCHANGED <<listVars, concVars, tickVars, retryVars, appVars, pollVars, aliasVars>>

\* appErr := WrapAPIError(err)
CallWrapAPIError ==
    /\ cwrapped = NotCalled
    /\ cwrapped' = WrapAPIError(cerr)
    /\ UNCHANGED <<cerr, cchecked, cretry>>
    /\ ClassFrame

\* what a caller holds after the call sites' `if err != nil { return
\* WrapAPIError(err) }`: the error itself before, the *AppError after, which
\* a caller may wrap again
Held ==
    IF cwrapped = NotCalled \/ cwrapped = NilAppError
    THEN {cerr}
    ELSE {AsError(cwrapped), Errorf(AsError(cwrapped))}

\* IsRetryable(err)
CallIsRetryable ==
    /\ cchecked = NotChecked
    /\ \E e \in Held :
        /\ cchecked' = e
        /\ cretry' = Returned(IsRetryable(e))
    /\ UNCHANGED <<cerr, cwrapped>>
    /\ ClassFrame

ClassifyNext ==
    \/ CallWrapAPIError
    \/ CallIsRetryable

(***************************************************************************)
(* The specifications.                                                     *)
(***************************************************************************)
\* the list of SpecList while another specification runs
ListIdle ==
    /\ list = NewFilteredList("listMatch")
    /\ matchTbl = [p \in TestItems \X TestFilters |-> TRUE]
    /\ lastCall = NoCall
    /\ prevCall = NoCall
    /\ prevIdx = 0

ListNext ==
    \/ ListSetItems
    \/ ListSetFilter
    \/ ListSelectNext
    \/ ListSelectPrev
    \/ ListReset

ConcNext ==
    \/ \E g \in Goroutines : ConcCall(g)
    \/ \E g \in Goroutines : ConcLock(g)
    \/ \E g \in Goroutines : ConcRLock(g)
    \/ \E g \in Goroutines : ConcWrite(g)
    \/ \E g \in Goroutines : ConcRead(g)
    \/ \E g \in Goroutines : ConcUnlock(g)

InitList == ListInit /\ ConcInit /\ TickerIdle /\ RetryIdle /\ AppIdle /\ PollIdle /\ AliasIdle /\ ClassIdle

SpecList == InitList /\ [][ListNext]_vars

InitTicker == ListIdle /\ ConcInit /\ NewTickerTask /\ RetryIdle /\ AppIdle /\ PollIdle /\ AliasIdle /\ ClassIdle

SpecTicker == InitTicker /\ [][TickerNext]_vars

\* taskFn returns, and a select that can take the cancellation case again
\* and again does take it
SpecTickerFair == SpecTicker /\ WF_vars(ProbeReturn) /\ SF_vars(SelectDone)

\* the ticker fires every interval, and a select whose tick case can proceed
\* proceeds
SpecTickerLive == SpecTicker /\ WF_vars(TickFires) /\ WF_vars(SelectTick)

InitRetry == ListIdle /\ ConcInit /\ TickerIdle /\ RetryInit /\ AppIdle /\ PollIdle /\ AliasIdle /\ ClassIdle

SpecRetry == InitRetry /\ [][RetryNext]_vars

InitConc == ListIdle /\ ConcInit /\ TickerIdle /\ RetryIdle /\ AppIdle /\ PollIdle /\ AliasIdle /\ ClassIdle

SpecConc == InitConc /\ [][ConcNext]_vars

Init == ListIdle /\ ConcInit /\ TickerIdle /\ RetryIdle /\ AppInit /\ PollIdle /\ AliasIdle /\ ClassIdle

Spec == Init /\ [][Next]_vars

InitActions == ListIdle /\ ConcInit /\ TickerIdle /\ RetryIdle /\ AppInit /\ PollIdle /\ AliasIdle /\ ClassIdle

SpecActions == InitActions /\ [][ActionsNext]_vars

InitMouse == ListIdle /\ ConcInit /\ TickerIdle /\ RetryIdle /\ AppInit /\ PollIdle /\ AliasIdle /\ ClassIdle

SpecMouse == InitMouse /\ [][MouseNext]_vars

InitRefresh == ListIdle /\ ConcInit /\ TickerIdle /\ RetryIdle /\ AppInit /\ PollIdle /\ AliasIdle /\ ClassIdle

SpecRefresh == InitRefresh /\ [][RefreshNext]_vars

InitModes == ListIdle /\ ConcInit /\ TickerIdle /\ RetryIdle /\ AppInit /\ PollIdle /\ AliasIdle /\ ClassIdle

SpecModes == InitModes /\ [][ModesNext]_vars

InitErrors == ListIdle /\ ConcInit /\ TickerIdle /\ RetryIdle /\ AppInit /\ PollIdle /\ AliasIdle /\ ClassIdle

SpecErrors == InitErrors /\ [][ErrorsNext]_vars

InitAlias == ListIdle /\ ConcInit /\ TickerIdle /\ RetryIdle /\ AppIdle /\ PollIdle /\ AliasInit /\ ClassIdle

SpecAlias == InitAlias /\ [][AliasNext]_vars

InitInterval == ListIdle /\ ConcInit /\ TickerIdle /\ RetryIdle /\ AppIdle /\ IntervalInit /\ AliasIdle /\ ClassIdle

SpecInterval == InitInterval /\ [][IntervalNext]_vars

InitPoll == ListIdle /\ ConcInit /\ TickerIdle /\ RetryIdle /\ AppInit /\ PollInit /\ AliasIdle /\ ClassIdle

SpecPoll == InitPoll /\ [][PollNext]_vars

InitClassify ==
    /\ ListIdle /\ ConcInit /\ TickerIdle /\ RetryIdle /\ AppIdle /\ PollIdle
    /\ AliasIdle /\ ClassInit

SpecClassify == InitClassify /\ [][ClassifyNext]_vars

(***************************************************************************)
(* Properties of FilteredList (SpecList, SpecConc).                        *)
(***************************************************************************)
\* C4: after any sequence of SetItems, SetFilter, SelectNext, SelectPrev and
\* Reset calls, SelectedIndex() lies in [0, max(0, Len()-1)], and it is 0
\* whenever the filtered view is empty.
C4_SelectionInvariant ==
    /\ SelectedIndex(list) >= 0
    /\ SelectedIndex(list) <= Max(0, FLLen(list) - 1)
    /\ FLLen(list) = 0 => SelectedIndex(list) = 0

\* a SetFilter call has just shrunk the view below the old cursor
C4_Witness ==
    /\ lastCall.op = "SetFilter"
    /\ FLLen(list) >= 1
    /\ prevIdx > FLLen(list) - 1
    /\ SelectedIndex(list) = FLLen(list) - 1

\* C5: under any interleaving of the FilteredList methods called from
\* several goroutines, a mutator's intermediate states stay inside its
\* critical section: no reader reads fields that do not fit together, no
\* index is out of range, and whenever no mutator holds the lock the list
\* satisfies the selection invariant and its view fits its items and filter.
C5_AtomicCalls ==
    /\ ~seenTorn
    /\ ~panicked
    /\ mu.writer = 0 => Consistent(clist)
    /\ mu.writer # 0 => mu.readers = {}

\* a reader waits for the lock while a mutator is between two statements
\* that leave the cursor outside the view
C5_Witness ==
    \E g, h \in Goroutines :
        /\ mu.writer = g
        /\ ~SelectionInvariant(clist)
        /\ gcall[h].op \in Readers
        /\ ~gcall[h].held

\* the items SetItems(items) stores
Stored(items) == IF items = NilSlice THEN <<>> ELSE items

\* the subsequence of items on which the predicate holds for text
Matching(items, text) ==
    SelectSeq(Stored(items), LAMBDA x : matchTbl[<<x, text>>])

\* C10 (as stated): after SetItems(items) followed by SetFilter(text),
\* Items() is the subsequence of items for which the predicate holds on
\* (item, text), for every filter text and every predicate.
C10_FilterCorrectness ==
    (prevCall.op = "SetItems" /\ lastCall.op = "SetFilter")
        => Items(list) = Matching(prevCall.arg, lastCall.arg)

\* C10 (amended): the same for every non-empty filter text; after
\* SetFilter("") Items() is all of items, whatever the predicate says.
C10_FilterCorrectnessNonEmpty ==
    (prevCall.op = "SetItems" /\ lastCall.op = "SetFilter")
        => Items(list) = IF lastCall.arg = <<>>
                         THEN Stored(prevCall.arg)
                         ELSE Matching(prevCall.arg, lastCall.arg)

\* SetItems then SetFilter with a text that keeps one item and drops another,
\* and SetItems then SetFilter("") with a predicate that rejects an item on ""
C10_Witness ==
    /\ prevCall.op = "SetItems"
    /\ lastCall.op = "SetFilter"
    /\ \/ /\ lastCall.arg # <<>>
          /\ Len(Items(list)) = 1
          /\ Len(Stored(prevCall.arg)) = 2
       \/ /\ lastCall.arg = <<>>
          /\ Len(Items(list)) = 2
          /\ \E x \in TestItems : ~matchTbl[<<x, <<>> >>]

\* what a list holding items shows under the filter text: everything when
\* the text is empty, otherwise the items the predicate accepts
View(items, text) == IF text = <<>> THEN Stored(items) ELSE Matching(items, text)

\* an index brought into a view of n items
Clamped(idx, n) == IF n = 0 THEN 0 ELSE IF idx > n - 1 THEN n - 1 ELSE idx

\* C24: SetItems(items) keeps the filter text; afterwards Items() is what
\* `items` (nil counting as the empty list) shows under the filter that was
\* active before the call, and the selection index is the one before the
\* call clamped into the new view.
C24_SetItemsKeepsFilter ==
    [][lastCall'.op = "SetItems" =>
        /\ list'.filter = list.filter
        /\ Items(list') = View(lastCall'.arg, list.filter)
        /\ SelectedIndex(list')
            = Clamped(SelectedIndex(list), Len(View(lastCall'.arg, list.filter)))]_vars

\* under a filter, the second of two items was selected and SetItems
\* brought two items of which one shows: the selection is clamped
C24_Witness ==
    /\ lastCall.op = "SetItems"
    /\ list.filter # <<>>
    /\ Len(Stored(lastCall.arg)) = 2
    /\ Len(Items(list)) = 1
    /\ prevIdx = 1
    /\ SelectedIndex(list) = 0

\* C25: SelectNext at the last item of the view and SelectPrev at the first
\* leave the selection where it is, each otherwise moves it by exactly one
\* position, both do nothing on an empty view, and neither changes
\* anything but the selection.
C25_SelectSaturates ==
    [][/\ lastCall'.op \in {"SelectNext", "SelectPrev"} =>
            list' = [list EXCEPT !.selectedIdx = SelectedIndex(list')]
       /\ lastCall'.op = "SelectNext" =>
            SelectedIndex(list') =
                IF FLLen(list) = 0 \/ SelectedIndex(list) = FLLen(list) - 1
                THEN SelectedIndex(list)
                ELSE SelectedIndex(list) + 1
       /\ lastCall'.op = "SelectPrev" =>
            SelectedIndex(list') =
                IF FLLen(list) = 0 \/ SelectedIndex(list) = 0
                THEN SelectedIndex(list)
                ELSE SelectedIndex(list) - 1]_vars

\* SelectNext moved the selection to the last of two items, and SelectNext
\* again left it there
C25_Witness ==
    /\ prevCall.op = "SelectNext"
    /\ lastCall.op = "SelectNext"
    /\ FLLen(list) = 2
    /\ prevIdx = 1
    /\ SelectedIndex(list) = 1

\* C28: whatever the state of the list before, a SetFilter(f) that follows
\* a SetFilter(f) directly leaves Items() as the first call left it.
C28_SetFilterIdempotent ==
    [][(lastCall.op = "SetFilter" /\ lastCall' = lastCall)
        => Items(list') = Items(list)]_vars

\* SetFilter(f) twice in a row, after some other call, with a text that
\* hides one of two items
C28_Witness ==
    /\ prevCall.op = "SetFilter"
    /\ lastCall = prevCall
    /\ lastCall.arg # <<>>
    /\ Len(list.allItems) = 2
    /\ Len(Items(list)) = 1

(***************************************************************************)
(* Properties of TickerTask (SpecTicker, SpecTickerFair).                  *)
(***************************************************************************)
\* C6: once Stop() has been called, the function returned by Start()
\* delivers no result: it returns nil.
C6_NoResultAfterStop ==
    (tpc = "returned" /\ tresult.afterStop) => tresult.msg = NilMsg

\* C7: whatever the number of Stop() calls, before or after Start(), once
\* Stop() has been called the running function returned by Start()
\* eventually returns, provided taskFn returns.
C7_StopTerminates ==
    (ctxDone /\ tpc \in {"select", "probe"}) ~> (tpc = "returned")

\* Stop() was called repeatedly, a probe had run, and the function returned
C7_Witness ==
    /\ tpc = "returned"
    /\ stops >= 2
    /\ probeCalls >= 1
    /\ tresult.afterStop

(***************************************************************************)
(* Properties of RetryWithBackoff (SpecRetry).                             *)
(***************************************************************************)
\* errors classified retryable, and errors classified non-retryable or not
\* classified at all
RetryableErrors == {AppErrRetryable, WrappedRetryable}

FinalErrors == {AppErrFinal, WrappedFinal, PlainErr}

\* C8: RetryWithBackoff with 3 attempts returns success when the operation
\* fails twice with a retryable error and then succeeds; when the operation
\* fails with an error that is non-retryable or not classified, that error is
\* returned after exactly one invocation.
C8_RetryBehavior ==
    rpc = "done" =>
        /\ (/\ rattempts = 3
            /\ rscript[1] \in RetryableErrors
            /\ rscript[2] \in RetryableErrors
            /\ rscript[3] = NoError) => (rresult = NoError /\ rcalls = 3)
        /\ rscript[1] \in FinalErrors => (rresult = rscript[1] /\ rcalls = 1)

\* two retryable failures, then success on the third invocation
C8_Witness ==
    /\ rpc = "done"
    /\ rattempts = 3
    /\ rscript[1] \in RetryableErrors
    /\ rscript[2] \in RetryableErrors
    /\ rscript[3] = NoError
    /\ rcalls = 3
    /\ rresult = NoError

\* C22: RetryWithBackoff(attempts, op) invokes op at most `attempts` times,
\* which for the 3 attempts every fetch command passes is at most 3 remote
\* calls, and when every invocation has failed what it returns is the error
\* of the last invocation.
C22_AtMostAttempts ==
    /\ rcalls <= rattempts
    /\ rattempts = FetchAttempts => rcalls <= 3
    /\ (rpc = "done" /\ \A i \in 1..rcalls : rscript[i] # NoError)
        => rresult = rscript[rcalls]

\* three attempts, all used: two different retryable failures, then a
\* failure that is returned
C22_Witness ==
    /\ rpc = "done"
    /\ rattempts = 3
    /\ rcalls = 3
    /\ rscript[1] = AppErrRetryable
    /\ rscript[2] = WrappedRetryable
    /\ rscript[3] = PlainErr
    /\ rresult = PlainErr

(***************************************************************************)
(* Properties of the error classification (SpecClassify).                  *)
(***************************************************************************)
\* the type and the retryable flag the classification table gives a status
\* code and an X-RateLimit-Remaining header
Classified(status, remaining) ==
    IF status = 401 THEN <<"ErrTypeAuth", FALSE>>
    ELSE IF status = 403 /\ remaining = "0" THEN <<"ErrTypeRateLimit", TRUE>>
    ELSE IF status = 403 THEN <<"ErrTypeAuth", FALSE>>
    ELSE IF status = 404 THEN <<"ErrTypeNotFound", FALSE>>
    ELSE IF status = 429 THEN <<"ErrTypeRateLimit", TRUE>>
    ELSE IF status >= 500 THEN <<"ErrTypeServer", TRUE>>
    ELSE <<"ErrTypeUnknown", FALSE>>

\* the API errors err holds
Responses(err) == {i \in 1..Len(err) : err[i].t = "ErrorResponse"}

\* C23: WrapAPIError maps nil to nil, an error that holds an API error to
\* the type and flag the table gives its status code (401 Auth, 403 with
\* X-RateLimit-Remaining 0 RateLimit and retryable, any other 403 Auth, 404
\* NotFound, 429 RateLimit and retryable, 500 and above Server and retryable,
\* anything else Unknown), and an error that holds no API error to Unknown
\* and non-retryable; only RateLimit and Server are retryable.
C23_Classification ==
    cwrapped # NotCalled =>
        IF cerr = NoError THEN cwrapped = NilAppError
        ELSE /\ cwrapped # NilAppError
             /\ cwrapped.Cause = cerr
             /\ \A i \in Responses(cerr) :
                    <<cwrapped.Type, cwrapped.Retryable>>
                        = Classified(cerr[i].StatusCode, cerr[i].Remaining)
             /\ Responses(cerr) = {} =>
                    <<cwrapped.Type, cwrapped.Retryable>> = <<"ErrTypeUnknown", FALSE>>

\* a wrapped 403 whose X-RateLimit-Remaining header is 0, classified
\* RateLimit and retryable
C23_Witness ==
    /\ cerr = Errorf(ErrorResponse(403, "0"))
    /\ cwrapped = AppError("ErrTypeRateLimit", cerr, TRUE)

\* the *AppError errors of err, from the outside in
AppErrors(err) == {i \in 1..Len(err) : err[i].t = "AppError"}

\* C26: IsRetryable(err) returns the retryable flag of the AppError found by
\* unwrapping err, the outermost one, however deep it is wrapped, and false
\* for nil and for an error that holds no AppError.
C26_IsRetryableUnwraps ==
    cchecked # NotChecked =>
        /\ cretry.called
        /\ cretry.value <=> \E i \in AppErrors(cchecked) :
                        /\ cchecked[i].Retryable
                        /\ \A j \in AppErrors(cchecked) : i <= j

\* the AppError WrapAPIError made of a wrapped 503, wrapped again
C26_Witness ==
    /\ cerr = Errorf(ErrorResponse(503, ""))
    /\ cwrapped = AppError("ErrTypeServer", cerr, TRUE)
    /\ cchecked = Errorf(AsError(cwrapped))
    /\ cretry = Returned(TRUE)

(***************************************************************************)
(* Properties of the App (Spec, SpecActions).                              *)
(***************************************************************************)
\* what the user sees of the logs, and the error state
Visible(a) == <<a.parsedLogs, a.logView, a.selectedStepIdx, a.err>>

\* the id of the selected item, 0 if there is none
SelectedID(l) == IF Selected(l).ok THEN Selected(l).item.ID ELSE 0

\* this step's Update returned command c
Issued(c) ==
    CopiesIn(c, cmds') > CopiesIn(c, cmds) - (IF last'.cmd = c THEN 1 ELSE 0)

\* C1: applying a logs-loaded result whose job id differs from the id of the
\* selected job, or that arrives while no job is selected, leaves the parsed
\* logs, the log-view content, the selected step and the error unchanged.
C1_StaleLogsDiscarded ==
    [][(/\ last'.cmd.kind = "fetchLogs"
        /\ SelectedID(app.jobs) # last'.cmd.key)
       => Visible(app') = Visible(app)]_vars

\* job 111 was selected and its logs requested, job 112 was selected, and
\* the result for 111 was delivered after that: 111's logs are not shown
C1_Witness ==
    /\ last.cmd = Cmd("fetchLogs", 111)
    /\ last.err = NoError
    /\ SelectedID(app.jobs) = 112
    /\ app.parsedLogs # ParseLogs(SanitizeLogs(GetJobLogs(111)))

\* C2: a runs-loaded result is applied to the runs list only if the selected
\* workflow's id is the id its fetch was issued for, and a jobs-loaded result
\* is applied to the jobs list only if the selected run's id is the id its
\* fetch was issued for.
C2_ParentKeyGating ==
    [][/\ (/\ last'.cmd.kind = "fetchRuns"
           /\ SelectedID(app.workflows) # last'.cmd.key)
          => app'.runs = app.runs
       /\ (/\ last'.cmd.kind = "fetchJobs"
           /\ SelectedID(app.runs) # last'.cmd.key)
          => app'.jobs = app.jobs]_vars

\* C3: whenever the selected item of a level becomes a different item, the
\* update function issues a fetch for the level below, keyed by the newly
\* selected item.
C3_SelectionChangeRefetches ==
    [][/\ SelectedID(app'.workflows) \notin {0, SelectedID(app.workflows)}
          => Issued(Cmd("fetchRuns", SelectedID(app'.workflows)))
       /\ SelectedID(app'.runs) \notin {0, SelectedID(app.runs)}
          => Issued(Cmd("fetchJobs", SelectedID(app'.runs)))
       /\ SelectedID(app'.jobs) \notin {0, SelectedID(app.jobs)}
          => Issued(Cmd("fetchLogs", SelectedID(app'.jobs)))]_vars

\* the action commands that have not made their remote call yet
PendingActions ==
    BagCardinality([c \in {x \in BagToSet(cmds) : x.kind \in ActionKinds}
                       |-> cmds[c]])

\* C9: every side-effecting action the user asks for makes exactly one
\* remote call, whatever error the call returns: the calls made and the
\* calls still to be made add up to the actions asked for.
C9_OneCallPerAction == remoteCalls + PendingActions = userActions

\* two actions were asked for, the second failed with a retryable error,
\* and two calls were made
C9_Witness ==
    /\ userActions = 2
    /\ remoteCalls = 2
    /\ PendingActions = 0
    /\ last.cmd.kind \in ActionKinds
    /\ last.err = AppErrRetryable
    /\ app.err = AppErrRetryable

\* the first item of the list as shown, Zero if it shows none
First(l) == IF FLLen(l) > 0 THEN Items(l)[1] ELSE Zero

\* C11: for every prior position of the cursor, once a successful non-empty
\* workflows-loaded result is applied the first workflow of the list is the
\* selected one and a runs fetch for its id is issued; likewise a runs-loaded
\* result selects the first run and fetches its jobs, and a jobs-loaded result
\* selects the first job and fetches its logs.
C11_LoadSelectsFirst ==
    [][last'.err = NoError =>
        /\ (last'.cmd.kind = "fetchWorkflows" /\ FLLen(app'.workflows) > 0)
            => /\ Selected(app'.workflows).item = First(app'.workflows)
               /\ Issued(Cmd("fetchRuns", First(app'.workflows).ID))
        /\ (last'.cmd.kind = "fetchRuns" /\ FLLen(app'.runs) > 0)
            => /\ Selected(app'.runs).item = First(app'.runs)
               /\ Issued(Cmd("fetchJobs", First(app'.runs).ID))
        /\ (last'.cmd.kind = "fetchJobs" /\ FLLen(app'.jobs) > 0)
            => /\ Selected(app'.jobs).item = First(app'.jobs)
               /\ Issued(Cmd("fetchLogs", First(app'.jobs).ID))]_vars

(***************************************************************************)
(* Properties of log polling and the real client (SpecPoll).               *)
(***************************************************************************)
\* the TickerTasks whose context has not been cancelled
LiveTasks == {i \in DOMAIN tasks : ~tasks[i].cancelled}

C13_OnlyUpdateMutates ==
    \A s \in Structures :
        /\ touched[s].w \subseteq {"update"}
        /\ Cardinality(touched[s].r \cup touched[s].w) > 1 => s = "FilteredList"

(***************************************************************************)
(* Properties of the slices of FilteredList (SpecAlias).                   *)
(***************************************************************************)
\* C15: the slice Items() returns is a defensive copy: writing to its
\* elements does not change what later Items() or Selected() calls return,
\* and later SetItems or SetFilter calls do not change the contents of a
\* slice that was returned earlier.
C15_ItemsIsACopy ==
    [][/\ acall'.op = "write"
          => /\ Items(Deref(alist))' = Items(Deref(alist))
             /\ Selected(Deref(alist))' = Selected(Deref(alist))
       /\ (acall'.op \in {"SetItems", "SetFilter"} /\ got.ref # 0)
          => heap'[got.ref] = heap[got.ref]]_vars

(***************************************************************************)
(* Properties of AdaptivePoller (SpecInterval).                            *)
(***************************************************************************)
\* C19: NextInterval() returns the base interval (2s) when remaining is at
\* least 1000, 1.5 times the base (3s) when remaining is 500 to 999, twice
\* the base (4s) when remaining is 100 to 499, and the maximum interval
\* (30s) when remaining is below 100, zero and negative values included;
\* the boundaries 99, 100, 499, 500, 999 and 1000 fall as stated.
C19_IntervalThresholds ==
    interval # 0 =>
        /\ rateLimit >= 1000 => interval = 2 * Second
        /\ rateLimit \in 500..999 => interval = 3 * Second
        /\ rateLimit \in 100..499 => interval = 4 * Second
        /\ rateLimit < 100 => interval = 30 * Second
        /\ rateLimit = 99 => interval = 30 * Second
        /\ rateLimit = 100 => interval = 4 * Second
        /\ rateLimit = 499 => interval = 4 * Second
        /\ rateLimit = 500 => interval = 3 * Second
        /\ rateLimit = 999 => interval = 3 * Second
        /\ rateLimit = 1000 => interval = 2 * Second

\* NextInterval() was called with 500 remaining and returned 3s
C19_Witness ==
    /\ rateLimit = 500
    /\ interval = 3 * Second

\* C27: NextInterval() is a monotonic step function of the remaining
\* capacity: what it returned for the remaining capacity it read is at most
\* what it returns for any smaller capacity and at least what it returns
\* for any larger one, and lies between the base interval and the maximum
\* interval.
C27_IntervalMonotonic ==
    interval # 0 =>
        /\ interval >= NewAdaptivePoller.baseInterval
        /\ interval <= NewAdaptivePoller.maxInterval
        /\ \A r \in RateLimits :
            /\ r <= rateLimit => NextInterval(NewAdaptivePoller, r) >= interval
            /\ r >= rateLimit => NextInterval(NewAdaptivePoller, r) <= interval

\* NextInterval() was called with 499 remaining and returned 4s, more than
\* it returns for 500 and less than it returns for 99
C27_Witness ==
    /\ rateLimit = 499
    /\ interval = 4 * Second
    /\ NextInterval(NewAdaptivePoller, 500) < interval
    /\ NextInterval(NewAdaptivePoller, 99) > interval

(***************************************************************************)
(* More properties of TickerTask (SpecTicker).                             *)
(***************************************************************************)
\* C20: if Stop() is called before the function returned by Start() begins
\* to run, that function returns nil without ever invoking the probe.
C20_StopBeforeStart ==
    stoppedFirst =>
        /\ probeCalls = 0
        /\ tpc = "returned" => tresult.msg = NilMsg

\* the counted probe results: all nil but the last, which was delivered
DeliveredLast ==
    /\ Len(probeLog) = probeCalls
    /\ probeCalls >= 1
    /\ tresult.msg = probeLog[Len(probeLog)]
    /\ tresult.msg # NilMsg
    /\ \A i \in 1..(Len(probeLog) - 1) : probeLog[i] = NilMsg

\* C21: the function returned by Start() invokes taskFn only by taking a
\* tick from the ticker, never again once it has returned, and, as long as
\* Stop() has not been called, again after every nil result; when no Stop()
\* was called and the function has returned, taskFn was called exactly k
\* times, the first k-1 results were nil and the k-th, non-nil, is what the
\* function returned.
C21_ProbeLoop ==
    /\ []((tpc = "returned" /\ stops = 0 /\ probeCalls < MaxProbes)
            => DeliveredLast)
    /\ [][/\ (probeCalls' # probeCalls) =>
                (/\ tpc = "select" /\ tickReady /\ ~tickReady'
                 /\ probeCalls' = probeCalls + 1)
          /\ (tpc = "returned") =>
                UNCHANGED <<tpc, probeCalls, probeLog, tresult>>]_vars
    /\ (tpc = "select" /\ ~ctxDone) ~> (tpc = "probe" \/ ctxDone)

\* no Stop(): the first probe returned nil, the second a message
C21_Witness ==
    /\ tpc = "returned"
    /\ stops = 0
    /\ probeCalls = 2
    /\ probeLog = <<NilMsg, [msg |-> "tock"]>>
    /\ tresult.msg = [msg |-> "tock"]

(***************************************************************************)
(* More properties of FilteredList (SpecList).                             *)
(***************************************************************************)
\* C16: Selected() returns (the item at the selected index, true) when the
\* filtered view is not empty and (zero value, false) when it is empty, and
\* the index it uses lies inside the filtered view in every reachable state.
C16_SelectedInBounds ==
    /\ FLLen(list) > 0 =>
        /\ SelectedIndex(list) \in 0..(FLLen(list) - 1)
        /\ Selected(list) = [ok |-> TRUE, item |-> Items(list)[SelectedIndex(list) + 1]]
    /\ FLLen(list) = 0 => Selected(list) = [ok |-> FALSE, item |-> Zero]

\* a filter has just emptied a view of two items whose second was selected
C16_Witness ==
    /\ lastCall.op = "SetFilter"
    /\ prevIdx = 1
    /\ Len(list.allItems) = 2
    /\ FLLen(list) = 0
    /\ ~Selected(list).ok

(***************************************************************************)
(* Properties of errors and of action results (Spec, SpecRefresh).         *)
(***************************************************************************)
\* what Escape does in the state a
Escape(a) == Update(a, KeyMsg("esc"))

\* Escape clears the error and issues a workflows fetch
Dismisses(a) ==
    /\ Escape(a).a.err = NoError
    /\ Escape(a).cmds = <<Cmd("fetchWorkflows", 0)>>

\* something is open that takes the Escape key before the error does
EscapeTaken(a) ==
    \/ a.filtering
    \/ a.showConfirm
    \/ a.showHelp
    \/ a.fullscreenLog
    \/ (a.detailTab = "LogsTab" /\ a.focusedPane = "JobsPane" /\ ~a.stepListFocused)

RECURSIVE DismissedWithin(_, _)
DismissedWithin(a, n) ==
    \E e \in {Escape(a)} :
        IF EscapeTaken(a)
        THEN /\ n > 0
             /\ e.a.err = a.err
             /\ e.cmds = <<>>
             /\ DismissedWithin(e.a, n - 1)
        ELSE /\ e.a.err = NoError
             /\ e.cmds = <<Cmd("fetchWorkflows", 0)>>

NoneIssued == \A c \in BagToSet(cmds') : ~Issued(c)

\* C17: when a cancel-run, rerun-workflow, rerun-failed-jobs or
\* trigger-workflow result arrives without error, Update issues a runs fetch
\* for the workflow that is selected at the moment the result is applied, and
\* issues none if no workflow is selected.
C17_SuccessRefreshesRuns ==
    [][(last'.cmd.kind \in ActionKinds /\ last'.err = NoError) =>
        IF SelectedID(app.workflows) # 0
        THEN Issued(Cmd("fetchRuns", SelectedID(app.workflows)))
        ELSE NoneIssued]_vars

\* workflow 1 was triggered, workflow 2 was selected after that, and the
\* result of the trigger has led to a runs fetch for workflow 2
C17_Witness ==
    /\ last.cmd.kind = "triggerWorkflow"
    /\ last.cmd.file = <<"c", "i">>
    /\ last.err = NoError
    /\ SelectedID(app.workflows) = 2
    /\ CopiesIn(Cmd("fetchRuns", 2), cmds) = 2

\* C18: when the result of a side-effecting action carries an error, Update
\* sets the visible error, leaves the contents, filter and selection of the
\* workflows, runs and jobs lists unchanged, and issues no fetch.
C18_FailureKeepsLists ==
    [][(last'.cmd.kind \in ActionKinds /\ last'.err # NoError) =>
        /\ app'.err = last'.err
        /\ app'.workflows = app.workflows
        /\ app'.runs = app.runs
        /\ app'.jobs = app.jobs
        /\ NoneIssued]_vars

\* the cancellation of run 11 has failed: the error is shown, the lists are
\* as they were and nothing is in flight
C18_Witness ==
    /\ last.cmd = Cmd("cancelRun", 11)
    /\ last.err = AppErrRetryable
    /\ app.err = AppErrRetryable
    /\ SelectedID(app.runs) = 11
    /\ FLLen(app.runs) = 2
    /\ FLLen(app.jobs) = 2
    /\ cmds = EmptyBag

(***************************************************************************)
(* More properties of the App (Spec).                                      *)
(***************************************************************************)
\* what a successful logs result for job jobID leaves in a.parsedLogs
LogsOf(jobID) == ParseLogs(SanitizeLogs(GetJobLogs(jobID)))

\* C29: in every reachable state, the parsed logs that are displayed were
\* produced from a result for the job that is selected now.
C29_LogsOfSelectedJob ==
    (app # NilMsg /\ app.parsedLogs # NilLogs) =>
        /\ Selected(app.jobs).ok
        /\ app.parsedLogs = LogsOf(SelectedID(app.jobs))

\* every fetch has been delivered, none of them is known to have failed,
\* and no filter is set or being typed
Quiescent ==
    /\ app # NilMsg
    /\ cmds = EmptyBag
    /\ app.err = NoError
    /\ ~app.filtering
    /\ app.workflows.filter = <<>>
    /\ app.runs.filter = <<>>
    /\ app.jobs.filter = <<>>

\* C30: once every fetch in flight has been delivered, the runs list is the
\* result of a fetch for the selected workflow, the jobs list the result of
\* a fetch for the selected run, and the logs are those of the selected
\* job, in whatever order the results were delivered.
C30_SettlesOnSelection ==
    Quiescent =>
        /\ Selected(app.workflows).ok =>
                app.runs.allItems = Stored(ListRuns(SelectedID(app.workflows)))
        /\ Selected(app.runs).ok =>
                app.jobs.allItems = Stored(ListJobs(SelectedID(app.runs)))
        /\ Selected(app.jobs).ok =>
                app.parsedLogs = LogsOf(SelectedID(app.jobs))

\* C31: every logs result delivered for the job that is selected is applied,
\* whatever is displayed already and whatever else is in flight: after it
\* the displayed logs are those of that result, or none with the failure
\* text if it failed.  Of two results for the same selected job the one
\* delivered last is therefore the one displayed.
C31_LastDeliveredWins ==
    [][(/\ last'.cmd.kind = "fetchLogs"
        /\ SelectedID(app.jobs) = last'.cmd.key)
       => IF last'.err = NoError
          THEN /\ app'.parsedLogs = LogsOf(last'.cmd.key)
               /\ app'.selectedStepIdx = app.selectedStepIdx
               /\ app'.logView = updateLogViewContent(app').logView
          ELSE /\ app'.parsedLogs = NilLogs
               /\ app'.logView = Literal("Failed to load logs")
               /\ app'.err = last'.err]_vars

\* two fetches of the logs of job 111 were in flight; the first result, a
\* success, is displayed, and the second, still in flight, will replace it
C31_Witness ==
    /\ last.cmd = Cmd("fetchLogs", 111)
    /\ last.err = NoError
    /\ SelectedID(app.jobs) = 111
    /\ app.parsedLogs = LogsOf(111)
    /\ CopiesIn(Cmd("fetchLogs", 111), cmds) = 1
    /\ Update(app, fetchLogs(111, AppErrRetryable)).a.parsedLogs = NilLogs

(***************************************************************************)
(* More properties of the App (SpecActions).                               *)
(***************************************************************************)
\* the cancel requests this step has started
CancelsIssued ==
    {id \in {11, 12, 21} : Issued(Cmd("cancelRun", id))}

\* C32: the confirm dialog opens for the selected run, which is running, and
\* remembers that run whatever happens to the runs list while it is open;
\* the step that closes it either drops the request or starts exactly one
\* cancel request, for the remembered run; no other step starts a cancel
\* request.
C32_CancelsRememberedRun ==
    [][/\ (~app.showConfirm /\ app'.showConfirm) =>
            /\ Selected(app.runs).ok
            /\ IsRunning(Selected(app.runs).item)
            /\ app'.confirmFn = <<SelectedID(app.runs)>>
       /\ (app.showConfirm /\ app'.showConfirm) => app'.confirmFn = app.confirmFn
       /\ (app.showConfirm /\ ~app'.showConfirm) =>
            \/ /\ app'.confirmFn = <<>>
               /\ cmds' = cmds
            \/ /\ app'.confirmFn = app.confirmFn
               /\ cmds' = cmds (+) SetToBag({Cmd("cancelRun", app.confirmFn[1])})
       /\ CancelsIssued # {} => (app.showConfirm /\ ~app'.showConfirm)]_vars

\* the dialog was opened on run 11, the runs of workflow 2 replaced the
\* list while it was open, and the confirmation cancels run 11
C32_Witness ==
    /\ ~app.showConfirm
    /\ app.confirmFn = <<11>>
    /\ SelectedID(app.runs) = 21
    /\ CopiesIn(Cmd("cancelRun", 11), cmds) = 1
    /\ last.cmd = NoCmd

(***************************************************************************)
(* Invariants of the displayed data (Spec).                                *)
(***************************************************************************)
\* C33: the selected step index is -1 (all logs) or an index of a step of
\* the displayed parsed logs.
C33_StepIndexValid ==
    \/ app.selectedStepIdx = -1
    \/ /\ app.parsedLogs # NilLogs
       /\ app.selectedStepIdx \in 0..(Len(app.parsedLogs.Steps) - 1)

\* C34: an empty runs list comes with an empty jobs list and no displayed
\* logs, and an empty jobs list comes with no displayed logs.
C34_NoOrphanedChildren ==
    /\ Items(app.runs) = <<>> =>
           (Items(app.jobs) = <<>> /\ app.parsedLogs = NilLogs)
    /\ Items(app.jobs) = <<>> => app.parsedLogs = NilLogs

(***************************************************************************)
(* Failed loads (SpecErrors).                                              *)
(***************************************************************************)
LoadKinds == {"fetchWorkflows", "fetchRuns", "fetchJobs"}

\* C35: the delivery of a workflows-, runs- or jobs-result that carries an
\* error sets the visible error, leaves the three lists (contents, filter
\* and selection) as they were, and starts no command.
C35_FailedLoadFrame ==
    [][(last'.cmd.kind \in LoadKinds /\ last'.err # NoError) =>
            /\ app'.err = last'.err
            /\ app'.workflows = app.workflows
            /\ app'.runs = app.runs
            /\ app'.jobs = app.jobs
            /\ cmds' = cmds (-) SetToBag({last'.cmd})]_vars

\* a refresh of the runs failed while runs and jobs were displayed
C35_Witness ==
    /\ last.cmd.kind = "fetchRuns"
    /\ last.err # NoError
    /\ app.err = last.err
    /\ Items(app.runs) # <<>>
    /\ Items(app.jobs) # <<>>

(***************************************************************************)
(* Displayed logs under log polling (SpecPoll).                            *)
(***************************************************************************)
JobIDs == {111, 112, 121}

\* C36: the parsed logs on display are the parse of a text that went through
\* SanitizeLogs, whether a fetch command or the polling probe delivered it.
C36_DisplayedLogsSanitized ==
    app.parsedLogs # NilLogs =>
        \E jobID \in JobIDs :
            app.parsedLogs = ParseLogs(SanitizeLogs(GetJobLogs(jobID)))

(***************************************************************************)
(* Preconditions of the actions (SpecRefresh).                             *)
(***************************************************************************)
\* the runs the client knows
AllRuns ==
    UNION {{ListRuns(w)[i] : i \in DOMAIN ListRuns(w)} : w \in {1, 2}}

\* the precondition of action command c in the state the step starts from
ActionAllowed(c) ==
    CASE c.kind = "cancelRun" ->
            /\ app.showConfirm /\ ~app'.showConfirm
            /\ app.confirmFn = <<c.key>>
            /\ \E r \in AllRuns : r.ID = c.key /\ IsRunning(r)
      [] c.kind = "rerunFailedJobs" ->
            /\ ~app.showConfirm
            /\ Selected(app.runs).ok
            /\ Selected(app.runs).item.ID = c.key
            /\ IsFailed(Selected(app.runs).item)
      [] c.kind = "rerunWorkflow" ->
            /\ ~app.showConfirm
            /\ Selected(app.runs).ok
            /\ Selected(app.runs).item.ID = c.key
      [] OTHER ->
            /\ ~app.showConfirm
            /\ Selected(app.workflows).ok

\* C37: a step starts an action command only if the action's precondition
\* holds: a cancel only on the confirmation of a dialog that was opened on
\* a queued or in-progress run, a rerun of the failed jobs only for the
\* selected run and only if its conclusion is failure, a rerun only for the
\* selected run, a trigger only with a selected workflow; the dismissal of
\* the dialog starts nothing.
C37_ActionPreconditions ==
    [][/\ \A c \in BagToSet(cmds') :
            (c.kind \in ActionKinds /\ Issued(c)) => ActionAllowed(c)
       /\ (app.showConfirm /\ ~app'.showConfirm /\ app'.confirmFn = <<>>) =>
            cmds' = cmds]_vars

\* the failed run 12 is selected and the rerun of its failed jobs under way
C37_Witness ==
    /\ SelectedID(app.runs) = 12
    /\ CopiesIn(Cmd("rerunFailedJobs", 12), cmds) = 1

(***************************************************************************)
(* Input while a mode is open (SpecModes).                                 *)
(***************************************************************************)
KeyStep == last'.input = "tea.KeyMsg"

MouseStep == last'.input = "tea.MouseMsg"

Selections(a) == <<Selected(a.workflows), Selected(a.runs), Selected(a.jobs)>>

Popup(a) == a.showHelp \/ a.showConfirm \/ a.fullscreenLog \/ a.filtering

\* the dialog's key: no list changes, nothing starts but the cancel request
ConfirmConsumes ==
    (KeyStep /\ ~app.filtering /\ app.showConfirm) =>
        /\ Selections(app') = Selections(app)
        /\ \A c \in BagToSet(cmds') :
                Issued(c) => c = Cmd("cancelRun", app.confirmFn[1])

\* mouse events under a popup move the tracked pointer and nothing else
MouseIgnored ==
    (MouseStep /\ Popup(app)) =>
        /\ app' = [app EXCEPT !.mouseX = app'.mouseX, !.mouseY = app'.mouseY]
        /\ cmds' = cmds

FilterApplied(text) ==
    /\ app'.workflows = IF app.focusedPane = "WorkflowsPane"
                        THEN SetFilter(app.workflows, text) ELSE app.workflows
    /\ app'.runs = IF app.focusedPane = "RunsPane"
                   THEN SetFilter(app.runs, text) ELSE app.runs
    /\ app'.jobs = IF app.focusedPane = "JobsPane"
                   THEN SetFilter(app.jobs, text) ELSE app.jobs

C39_FlashClearPending ==
    app.flashMsg # Flash("", <<>>) =>
        CopiesIn(Cmd("flashClear", 0), cmds) > 0

\* the workflows, runs and jobs fetches whose result has not been applied
LoadsOutstanding == {c \in BagToSet(cmds) : c.kind \in LoadKinds}

\* C40: the loading flag is true exactly while a workflows, runs or jobs
\* fetch is outstanding.
C40_LoadingIffOutstanding ==
    app.loading <=> (LoadsOutstanding # {})

====
